---- MODULE Spec2Model ----
(***************************************************************************)
(* Model of the start-gate firmware                                        *)
(* src/firmware/stargate/Tag_Beacon_BLE_Pairing_UWB_Only.ino:              *)
(* the start detector, the telemetry step of pollUWB(), the power/mode     *)
(* state machine of setup()/loop(), the BLE write handlers and sendAT().   *)
(*                                                                         *)
(* Clock values.  millis() is a uint32_t.  TLC integers are 32-bit signed, *)
(* so a uint32_t value u is held as the int32_t with the same bit pattern  *)
(* (u itself below 2^31, u - 2^32 from 2^31 on).  With that, the cast      *)
(* (int32_t)u of the source is the identity on the held value, and the     *)
(* unsigned arithmetic is done on 16-bit halves (U32Add, U32Sub).          *)
(***************************************************************************)
EXTENDS Integers, Sequences, FiniteSets, TLC

\* ------------------------------------------------------------------------
\* 32-bit arithmetic
\* ------------------------------------------------------------------------
Half == 65536

Hi16(a) == a \div Half

Lo16(a) == a % Half

\* a 17-bit high half folded back into -32768..32767
Wrap16(h) == ((h + 32768) % Half) - 32768

\* (uint32_t)(a + b)
U32Add(a, b) ==
  LET sl == Lo16(a) + Lo16(b)
      sh == Hi16(a) + Hi16(b) + (IF sl >= Half THEN 1 ELSE 0)
  IN  Wrap16(sh) * Half + (sl % Half)

\* (uint32_t)(a - b)
U32Sub(a, b) ==
  LET dl == Lo16(a) - Lo16(b)
      dh == Hi16(a) - Hi16(b) - (IF dl < 0 THEN 1 ELSE 0)
  IN  Wrap16(dh) * Half + (dl % Half)

\* the unsigned value held in p is >= k   (0 <= k < 2^31)
U32GE(p, k) == p < 0 \/ p >= k

\* the unsigned value held in p is < k    (0 <= k < 2^31)
U32LT(p, k) == ~U32GE(p, k)

\* (int32_t)u : the held value is already the signed reading
ToInt32(u) == u

\* (uint8_t)(x + 1)
U8Inc(x) == (x + 1) % 256

Min(a, b) == IF a < b THEN a ELSE b

\* ------------------------------------------------------------------------
\* Program constants
\* ------------------------------------------------------------------------
MIN_ABS_CM == 1

MIN_DROP_CM == 10

BASELINE_MAX_CM == 183

BELOW_CONSEC_REQUIRED == 2

ABOVE_CONSEC_REQUIRED == 2

TRIGGER_HOLD_MS == 500

SEND_PERIOD_MS == 300

BATT_PERIOD_MS == 5000

CHG_BATT_PERIOD_MS == 1000

LONG_PRESS_MS == 5000

BOOT_PRESS_LIMIT_MS == 5500

ID_BUF == 16

DIST_UNKNOWN == 65535

PowerStates ==
  {"DEEP_SLEEP", "CHARGING", "AWAKE_STANDBY", "AWAKE_RUNNING",
   "PAIRING_MODE", "OTA_MODE"}

\* ------------------------------------------------------------------------
\* Bounds of the model
\* ------------------------------------------------------------------------
\* loop iterations are modelled while the clock is less than MaxMs past the
\* clock value the run started at
MaxMs == 1500

\* BLE writes in one run of the specifications that bound them
MaxWrites == 2

\* length in milliseconds of the window of SpecPair
PairMaxMs == 700

\* ------------------------------------------------------------------------
\* Strings: a C string is the sequence of its characters
\* ------------------------------------------------------------------------
EmptyStr == << >>

\* strncpy(buf, s, sizeof(buf) - 1); buf[sizeof(buf) - 1] = '\0'
StrNCpy15(s) == SubSeq(s, 1, Min(Len(s), ID_BUF - 1))

NetA == <<"N", "A">>

NetB == <<"N", "B">>

AddrA == <<"A", "A">>

AddrB == <<"A", "B">>

\* an identifier of 16 characters, one more than the buffers hold
LongId == [i \in 1..ID_BUF |-> "x"]

MY_UWB_ADDRESS == <<"T", "A", "G">>

\* a key that is not in the store
NoKey == << "nokey" >>

\* no frame was written to the radio
NoFrame ==
  [sent |-> FALSE, battery |-> 0, dist |-> 0, startAge |-> -1, dest |-> EmptyStr,
   hex |-> << >>]

\* ------------------------------------------------------------------------
\* State
\* ------------------------------------------------------------------------
VARIABLES
  now,                    \* millis() as read at the top of the latest loop()
  t0,                     \* clock value at which the modelled window began
  powerState,             \* PowerState powerState
  rail3V3On,              \* bool rail3V3On
  isCharging,             \* bool isCharging (last checkCharging() read)
  batteryPercent,         \* uint8_t batteryPercent
  bleStarted,             \* startBLE() has run and NimBLE is not deinitialised
  wakeSources,            \* wake sources armed by enterDeepSleep()
  lastBattUpdate,         \* loop(): static lastBattUpdate of the awake branch
  btnPressStart,          \* loop(): static btnPressStart of the awake branch
  btnWasPressed,          \* loop(): static btnWasPressed of the awake branch
  chgLastBattUpdate,      \* loop(): static lastBattUpdate of the charging branch
  chgBtnPressStart,       \* loop(): static btnPressStart of the charging branch
  chgBtnWasPressed,       \* loop(): static btnWasPressed of the charging branch
  tof_cm,                 \* int32_t tof_cm
  baseline_cm,            \* uint16_t baseline_cm
  belowConsec,            \* uint8_t belowConsec
  aboveConsec,            \* uint8_t aboveConsec
  startArmed,             \* bool startArmed
  lastTriggerDetectionMs, \* uint32_t lastTriggerDetectionMs
  prevStartTriggered,     \* bool prevStartTriggered
  startTimestamp,         \* int32_t startTimestamp
  isPaired,               \* bool isPaired
  ANCHOR_UWB_NETWORK,     \* char ANCHOR_UWB_NETWORK[16]
  ANCHOR_UWB_ADDRESS,     \* char ANCHOR_UWB_ADDRESS[16]
  nvs,                    \* Preferences namespace "sprint-tag"
  lastSend,               \* pollUWB(): static lastSend
  uwb_distance_cm,        \* int32_t uwb_distance_cm
  uwbSynced,              \* result of the latest uwbSync()
  uwbCfg,                 \* command lines written by the latest configureUWB()
  txFrame,                \* frame written by the latest loop(), or NoFrame
  at,                     \* sendAT(): position, arguments, locals, result
  uwb,                    \* Serial1: bytes to be read, bytes still to arrive
  hnd,                    \* NetworkCfgCB::handleWrite: position and payload
  job,                    \* uwbSync() / configureUWB(): position and locals
  env,                    \* the device's surroundings: the push button
  iter,                   \* loop(): the iteration in progress, if any
  ev,                     \* what the latest step did (observation only)
  obs                     \* history kept for the properties (observation only)

powerVars ==
  <<powerState, rail3V3On, isCharging, batteryPercent, bleStarted, wakeSources,
    lastBattUpdate, btnPressStart, btnWasPressed, chgLastBattUpdate,
    chgBtnPressStart, chgBtnWasPressed>>

detVars ==
  <<tof_cm, baseline_cm, belowConsec, aboveConsec, startArmed,
    lastTriggerDetectionMs, prevStartTriggered, startTimestamp>>

pairVars == <<isPaired, ANCHOR_UWB_NETWORK, ANCHOR_UWB_ADDRESS, nvs>>

radioVars == <<lastSend, uwb_distance_cm, uwbSynced, uwbCfg, txFrame>>

ioVars == <<at, uwb, hnd, job, env>>

\* no sendAT() call in progress; exit and end tell which return statement
\* ended the latest call and at which clock value
AtIdle ==
  [pc |-> "idle", start |-> 0, timeoutMs |-> 0, waitForOK |-> FALSE,
   line |-> << >>, result |-> FALSE, exit |-> "none", end |-> 0]

\* nothing to read from the radio module and nothing on its way; line is the
\* static String line of pollUWB()
UwbIdle == [rx |-> << >>, wire |-> << >>, line |-> << >>]

\* no network-config write being handled
HndIdle == [pc |-> "idle", net |-> << >>, addr |-> << >>]

\* loop() is between two iterations; busy tells that an iteration has read
\* the clock (n) and has taken the branch of the awake modes
IterTop == [busy |-> FALSE, n |-> 0, at |-> "top", paired |-> FALSE]

\* the push button is up; btnSince and btnMode are the clock value and the
\* mode at which the latest press began, btnUp the clock value at which it
\* ended
Env0 ==
  [btnLow |-> FALSE, btnSince |-> 0, btnMode |-> "DEEP_SLEEP", btnUp |-> 0]

\* neither uwbSync() nor configureUWB() is running: fn and pc tell the function
\* and the statement it is at, i is the loop counter of uwbSync() or the
\* number of the command of configureUWB(), t the clock at which a delay()
\* began, cmds the command lines written so far, results what sendAT()
\* returned for each and exits the return statement it left by, ret the
\* value returned by uwbSync(), lines the lines the radio module has sent
\* since the latest command, ans for each line the module has sent the
\* number of the command it answers
JobIdle ==
  [fn |-> "none", pc |-> "idle", i |-> 0, t |-> 0, cmds |-> << >>,
   results |-> << >>, exits |-> << >>, ret |-> "none", lines |-> 0,
   ans |-> << >>]

\* ------------------------------------------------------------------------
\* Start detection: loop(), "START DETECTION LOGIC"
\* ------------------------------------------------------------------------
\* a conversion to uint16_t without the clamp
ClampCm_Cast(c) == c % Half

\* uint16_t cur_cm = (uint16_t)tof_cm;
\* if (cur_cm > BASELINE_MAX_CM) cur_cm = BASELINE_MAX_CM
ClampCm(c) ==
  LET u == c % Half
  IN  IF u > BASELINE_MAX_CM THEN BASELINE_MAX_CM ELSE u

\* drop_cm = (baseline_cm > cur_cm) ? (baseline_cm - cur_cm) : 0
DropCm(base, cur) == IF base > cur THEN base - cur ELSE 0

\* cur_cm >= MIN_ABS_CM && drop_cm >= MIN_DROP_CM
IsDrop(base, cur) == cur >= MIN_ABS_CM /\ DropCm(base, cur) >= MIN_DROP_CM

\* inHoldWindow = (now - lastTriggerDetectionMs) < TRIGGER_HOLD_MS
InHoldWindow(n, last) == U32LT(U32Sub(n, last), TRIGGER_HOLD_MS)

\* a clear sample that resets the count
Decay_Reset(b) == IF b > 0 THEN 0 ELSE b

\* if (belowConsec > 0) belowConsec--
Decay(b) == IF b > 0 THEN b - 1 ELSE b

\* the detector's variables as a record
DetState ==
  [tof_cm |-> tof_cm, baseline_cm |-> baseline_cm, belowConsec |-> belowConsec,
   aboveConsec |-> aboveConsec, startArmed |-> startArmed,
   lastTrig |-> lastTriggerDetectionMs, powerState |-> powerState,
   startTriggered |-> FALSE, rearmed |-> FALSE]

\* a drop branch that fires without disarming the detector
OnDrop_NoDisarm(d, n) ==
  LET b == U8Inc(d.belowConsec)
  IN  IF b >= BELOW_CONSEC_REQUIRED
      THEN [d EXCEPT !.belowConsec = b, !.lastTrig = n,
                     !.startTriggered = TRUE, !.aboveConsec = 0,
                     !.powerState = "AWAKE_RUNNING"]
      ELSE [d EXCEPT !.belowConsec = b, !.lastTrig = n]

\* a drop branch that counts and fires whether the detector is armed or not
OnDrop_IgnoreArmed(d, n) ==
  LET b == U8Inc(d.belowConsec)
  IN  IF b >= BELOW_CONSEC_REQUIRED
      THEN [d EXCEPT !.belowConsec = b, !.lastTrig = n,
                     !.startTriggered = TRUE, !.startArmed = FALSE,
                     !.aboveConsec = 0, !.powerState = "AWAKE_RUNNING"]
      ELSE [d EXCEPT !.belowConsec = b, !.lastTrig = n]

\* drop branch: cur_cm >= MIN_ABS_CM && drop_cm >= MIN_DROP_CM
OnDrop(d, n) ==
  IF d.startArmed
  THEN LET b == U8Inc(d.belowConsec)
       IN  IF b >= BELOW_CONSEC_REQUIRED
           THEN [d EXCEPT !.belowConsec = b, !.lastTrig = n,
                          !.startTriggered = TRUE, !.startArmed = FALSE,
                          !.aboveConsec = 0, !.powerState = "AWAKE_RUNNING"]
           ELSE [d EXCEPT !.belowConsec = b, !.lastTrig = n]
  ELSE [d EXCEPT !.lastTrig = n]

\* a re-arm that leaves the mode as it is
ReArm_KeepMode(d, cur) ==
  [d EXCEPT !.startArmed = TRUE, !.belowConsec = 0, !.baseline_cm = cur,
            !.rearmed = TRUE]

\* re-arm: startArmed = true; belowConsec = 0; baseline_cm = cur_cm
ReArm(d, cur) ==
  [d EXCEPT !.startArmed = TRUE, !.belowConsec = 0, !.baseline_cm = cur,
            !.rearmed = TRUE,
            !.powerState = IF d.powerState = "AWAKE_RUNNING"
                           THEN "AWAKE_STANDBY" ELSE d.powerState]

\* else branch: decay of belowConsec and the re-arm logic
OnClear(d, cur, n) ==
  LET d1 == [d EXCEPT !.belowConsec = Decay(d.belowConsec)]
  IN  IF d1.startArmed THEN d1
      ELSE IF ~InHoldWindow(n, d1.lastTrig)
           THEN LET a == U8Inc(d1.aboveConsec)
                    d2 == [d1 EXCEPT !.aboveConsec = a]
                IN  IF a >= ABOVE_CONSEC_REQUIRED THEN ReArm(d2, cur) ELSE d2
           ELSE [d1 EXCEPT !.aboveConsec = 0]

\* a detector step that also processes a sample of 0 or less
Detection_NoGuard(d, n) ==
  LET cur  == ClampCm(IF d.tof_cm > 0 THEN d.tof_cm ELSE 0)
      d0   == [d EXCEPT !.baseline_cm =
                          IF d.baseline_cm = 0 THEN cur ELSE d.baseline_cm]
  IN  IF IsDrop(d0.baseline_cm, cur) THEN OnDrop(d0, n)
      ELSE OnClear(d0, cur, n)

\* the whole detector step on the current tof_cm, at loop time n
Detection(d, n) ==
  IF d.tof_cm > 0
  THEN LET cur  == ClampCm(d.tof_cm)
           d0   == [d EXCEPT !.baseline_cm =
                               IF d.baseline_cm = 0 THEN cur ELSE d.baseline_cm]
       IN  IF IsDrop(d0.baseline_cm, cur) THEN OnDrop(d0, n)
           ELSE OnClear(d0, cur, n)
  ELSE d

\* ------------------------------------------------------------------------
\* Telemetry: pollUWB()
\* ------------------------------------------------------------------------
\* a send condition that also asks for a synced radio module
SendDue_SyncedOnly(paired, pn, last) ==
  paired /\ uwbSynced /\ U32GE(U32Sub(pn, last), SEND_PERIOD_MS)

\* isPaired && now - lastSend >= 300
SendDue(paired, pn, last) ==
  paired /\ U32GE(U32Sub(pn, last), SEND_PERIOD_MS)

\* dist = (uwb_distance_cm > 0 && uwb_distance_cm < 65535) ? ... : 0xFFFF
FrameDist(dcm) == IF dcm > 0 /\ dcm < 65535 THEN dcm ELSE DIST_UNKNOWN

\* startAge = -1; if (startTimestamp >= 0) startAge = (int32_t)(now - ts)
StartAge(ts, pn) == IF ts >= 0 THEN ToInt32(U32Sub(pn, ts)) ELSE -1

\* if (startTimestamp >= 0) { ...; startTimestamp = -1; }
ConsumeTimestamp(ts) == IF ts >= 0 THEN -1 ELSE ts

HexDigits ==
  <<"0", "1", "2", "3", "4", "5", "6", "7", "8", "9", "A", "B", "C", "D", "E",
    "F">>

\* the hexadecimal digits of v >= 0, without leading zeros
RECURSIVE HexOf(_)
HexOf(v) ==
  IF v < 16 THEN <<HexDigits[v + 1]>>
  ELSE Append(HexOf(v \div 16), HexDigits[(v % 16) + 1])

\* sprintf("%0wX", v): at least w digits, zeros in front
PrintfX(v, w) ==
  LET ds == HexOf(v) IN [i \in 1..(IF Len(ds) < w THEN w - Len(ds) ELSE 0) |-> "0"] \o ds

\* sprintf("%08X", (uint32_t)a) for the 32-bit pattern a
Printf08X(a) == PrintfX(Hi16(a) % Half, 4) \o PrintfX(Lo16(a), 4)

\* a packet with the start age in host byte order
HexData_LittleEndian(batt, dist, age) ==
  PrintfX(batt, 2) \o PrintfX(dist, 4)
    \o PrintfX(Lo16(age), 4) \o PrintfX(Hi16(age) % Half, 4)

\* a packet whose fields are not padded
HexData_NoPad(batt, dist, age) ==
  HexOf(batt) \o HexOf(dist) \o Printf08X(age)

\* hexData: "%02X" battery, "%04X" distance, "%08X" start age
HexData(batt, dist, age) ==
  PrintfX(batt, 2) \o PrintfX(dist, 4) \o Printf08X(age)

\* battery voltages in millivolts at which the percentage is 0 and 100
BATT_EMPTY_V == 3200

BATT_FULL_V == 4200

\* a conversion that is not limited to 100
VoltageToBatteryPercent_Unclamped(mv) ==
  IF mv <= BATT_EMPTY_V THEN 0
  ELSE ((mv - BATT_EMPTY_V) * 100 * 2 + (BATT_FULL_V - BATT_EMPTY_V))
         \div (2 * (BATT_FULL_V - BATT_EMPTY_V))

\* voltageToBatteryPercent(v), v in millivolts: linear between the two
\* voltages, rounded to the nearest
VoltageToBatteryPercent(mv) ==
  IF mv <= BATT_EMPTY_V THEN 0
  ELSE IF mv >= BATT_FULL_V THEN 100
  ELSE ((mv - BATT_EMPTY_V) * 100 * 2 + (BATT_FULL_V - BATT_EMPTY_V))
         \div (2 * (BATT_FULL_V - BATT_EMPTY_V))

\* the send half of pollUWB() at clock pn: the frame written (or NoFrame) and
\* the new lastSend and startTimestamp
PollSend(paired, last, ts, batt, dcm, addr, pn) ==
  IF SendDue(paired, pn, last)
  THEN [frame |-> [sent |-> TRUE, battery |-> batt, dist |-> FrameDist(dcm),
                   startAge |-> StartAge(ts, pn), dest |-> addr,
                   hex |-> HexData(batt, FrameDist(dcm), StartAge(ts, pn))],
        lastSend |-> pn, startTimestamp |-> ConsumeTimestamp(ts)]
  ELSE [frame |-> NoFrame, lastSend |-> last, startTimestamp |-> ts]

\* a receive half that forgets the distance when a line holds no number
PollReceive_Reset(dcm, rx) == IF rx > 0 /\ rx < 65535 THEN rx ELSE -1

\* the receive half of pollUWB(): rx is the number parsed from a complete
\* "+TAG_RCV=... <n> cm" line read in this call, or 0 when there is none
PollReceive(dcm, rx) == IF rx > 0 /\ rx < 65535 THEN rx ELSE dcm

\* characters are one-character strings; CR and LF stand for '\r' and '\n'
CR == "CR"

LF == "LF"

\* pollUWB() drops the characters of a line after the 120th
LINE_MAX == 120

\* isdigit(c)
IsDigit(c) == c \in {"0", "1", "2", "3", "4", "5", "6", "7", "8", "9"}

DigitVal(c) ==
  CASE c = "0" -> 0 [] c = "1" -> 1 [] c = "2" -> 2 [] c = "3" -> 3
    [] c = "4" -> 4 [] c = "5" -> 5 [] c = "6" -> 6 [] c = "7" -> 7
    [] c = "8" -> 8 [] c = "9" -> 9

\* LONG_MAX
LONG_MAX == 2147483647

\* String::toInt() of a string of digits: atol(), 0 for the empty string,
\* LONG_MAX when the number does not fit a long
RECURSIVE ToIntFrom(_, _)
ToIntFrom(acc, ds) ==
  IF ds = << >> THEN acc
  ELSE LET c == DigitVal(Head(ds))
       IN  ToIntFrom(IF acc > (LONG_MAX - c) \div 10 THEN LONG_MAX
                     ELSE acc * 10 + c, Tail(ds))

ToInt(ds) == ToIntFrom(0, ds)

\* line.indexOf(pat, from): the first index (from 0) at or after from where
\* pat begins, -1 when there is none
IndexOf(l, pat, from) ==
  LET hits == {i \in 0..(Len(l) - Len(pat)) :
                 i >= from /\ SubSeq(l, i + 1, i + Len(pat)) = pat}
  IN  IF hits = {} THEN -1 ELSE CHOOSE i \in hits : \A j \in hits : i <= j

\* "+TAG_RCV="
TagRcv == <<"+", "T", "A", "G", "_", "R", "C", "V", "=">>

\* " cm"
CmSuffix == <<" ", "c", "m">>

\* while (j >= 0 && isdigit(line[j])) j--, from j = cmPos - 1
RECURSIVE DigitsBack(_, _)
DigitsBack(l, j) ==
  IF j >= 0 /\ IsDigit(l[j + 1]) THEN DigitsBack(l, j - 1) ELSE j

\* a parse that takes the digits after the marker wherever the suffix is
PollLine_NoSuffix(l) ==
  LET idx == IndexOf(l, TagRcv, 0)
      ds  == SelectSeq(l, IsDigit)
  IN  IF idx >= 0 THEN ToInt(ds) ELSE 0

\* a parse that does not look for the marker
PollLine_NoMarker(l) ==
  LET cmPos == IndexOf(l, CmSuffix, 0)
  IN  IF cmPos > 0
      THEN ToInt(SubSeq(l, DigitsBack(l, cmPos - 1) + 2, cmPos))
      ELSE 0

\* pollUWB(), a completed line: the number before " cm" in a line that holds
\* "+TAG_RCV=", 0 when the line holds none
PollLine(l) ==
  LET idx   == IndexOf(l, TagRcv, 0)
      cmPos == IF idx >= 0 THEN IndexOf(l, CmSuffix, idx) ELSE -1
  IN  IF idx >= 0 /\ cmPos > idx
      THEN ToInt(SubSeq(l, DigitsBack(l, cmPos - 1) + 2, cmPos))
      ELSE 0

\* the receive half of pollUWB(), character by character until the receive
\* buffer is empty: st holds the distance, the buffer, the line under
\* assembly and the lines completed in this call
RECURSIVE PollBytes(_)
PollBytes(st) ==
  IF st.rx = << >> THEN st
  ELSE LET c == Head(st.rx)
       IN  PollBytes(
             IF c = CR \/ c = LF
             THEN [dcm   |-> IF Len(st.line) > 0
                             THEN PollReceive(st.dcm, PollLine(st.line))
                             ELSE st.dcm,
                   rx    |-> Tail(st.rx),
                   line  |-> << >>,
                   lines |-> IF Len(st.line) > 0
                             THEN Append(st.lines, st.line) ELSE st.lines]
             ELSE [st EXCEPT
                     !.rx = Tail(st.rx),
                     !.line = IF Len(st.line) < LINE_MAX
                              THEN Append(st.line, c) ELSE st.line])

\* ------------------------------------------------------------------------
\* Radio configuration: configureUWB()
\* ------------------------------------------------------------------------
Cmd(c, a) == [cmd |-> c, arg |-> a]

ConfigureUWB(net) ==
  << Cmd("AT", EmptyStr), Cmd("AT+MODE=0", EmptyStr), Cmd("AT+NETWORKID=", net),
     Cmd("AT+ADDRESS=", MY_UWB_ADDRESS), Cmd("AT+RSSI=1", EmptyStr) >>

\* setup(), not paired: sendAT("AT+MODE=0")
DefaultConfig == << Cmd("AT+MODE=0", EmptyStr) >>

\* ------------------------------------------------------------------------
\* Persistent store: Preferences, namespace "sprint-tag"
\* ------------------------------------------------------------------------
\* prefs.getString(key, "")
GetString(store, key) == IF store[key] = NoKey THEN EmptyStr ELSE store[key]

\* a store write that persists the identifiers without the paired flag
NvsPaired_NoFlag(net, addr) ==
  [paired |-> FALSE, uwb_network |-> net, anchor_addr |-> addr]

\* putString("uwb_network"), putString("anchor_addr"), putBool("paired", true)
NvsPaired(net, addr) ==
  [paired |-> TRUE, uwb_network |-> net, anchor_addr |-> addr]

\* remove("uwb_network"), remove("anchor_addr"), putBool("paired", false)
NvsUnpaired == [paired |-> FALSE, uwb_network |-> NoKey, anchor_addr |-> NoKey]

\* ------------------------------------------------------------------------
\* Observation of a run (read by the properties only, never by the program)
\* ------------------------------------------------------------------------
Sat2(x) == IF x >= 2 THEN 2 ELSE x

NoEv ==
  [op |-> "none", mode |-> "DEEP_SLEEP", fired |-> FALSE, rearmed |-> FALSE,
   polled |-> FALSE, due |-> FALSE, fresh |-> FALSE, kind |-> "none",
   sample |-> "none", chg |-> FALSE, press |-> "none", wake |-> "none",
   sleep |-> << >>, payload |-> << >>, store |-> << >>, lines |-> << >>]

Obs0 ==
  [shape |-> "pre", events |-> 0, rearms |-> 0, allFresh |-> TRUE,
   cycleEvents |-> 0, unreported |-> 0, sinceEvent |-> -1,
   lastDrop |-> 0, anyDrop |-> FALSE, clearRun |-> 0, writes |-> 0,
   dupReport |-> FALSE, owed |-> "none"]

\* a processed sample as the specification classifies it: "D" a qualifying
\* drop, "Cin" a clear sample less than the hold window after the last
\* qualifying drop, "Cout" a clear sample after the hold window
SampleKind(o, base, cur, n) ==
  IF base - cur >= 10 THEN "D"
  ELSE IF o.anyDrop /\ U32LT(U32Sub(n, o.lastDrop), 500) THEN "Cin"
  ELSE "Cout"

\* one crossing: clear samples, then 2 or more drops, then clear samples of
\* which the last 2 or more lie after the hold window
ShapeNext(sh, k) ==
  CASE sh = "pre"     -> (IF k = "D" THEN "d1" ELSE "pre")
    [] sh = "d1"      -> (IF k = "D" THEN "drop" ELSE "other")
    [] sh = "drop"    -> (IF k = "D" THEN "drop"
                          ELSE IF k = "Cin" THEN "hold" ELSE "c1")
    [] sh = "hold"    -> (IF k = "Cin" THEN "hold"
                          ELSE IF k = "Cout" THEN "c1" ELSE "other")
    [] sh = "c1"      -> (IF k = "Cout" THEN "crossed" ELSE "other")
    [] sh = "crossed" -> (IF k = "D" THEN "other" ELSE "crossed")
    [] OTHER          -> "other"

\* the history after a loop iteration that processed the sample of kind k
\* (k = "none": no valid sample was processed), in which the detector fired
\* or re-armed and a frame fr was or was not written
ObsLoop(o, k, fresh, fired, rearmed, fr, n) ==
  LET afterFrame ==
        IF fr = NoFrame THEN o
        ELSE [o EXCEPT
               !.unreported = IF fr.startAge >= 0 /\ o.unreported > 0
                              THEN o.unreported - 1 ELSE o.unreported,
               !.dupReport = o.dupReport
                             \/ (fr.startAge >= 0 /\ o.unreported = 0),
               !.sinceEvent = IF o.sinceEvent = -1 THEN -1
                              ELSE Sat2(o.sinceEvent + 1)]
      afterSample ==
        IF k = "none" THEN afterFrame
        ELSE [afterFrame EXCEPT
               !.shape = ShapeNext(o.shape, k),
               !.allFresh = o.allFresh /\ fresh,
               !.lastDrop = IF k = "D" THEN n ELSE o.lastDrop,
               !.anyDrop = o.anyDrop \/ k = "D",
               !.clearRun = IF k = "Cout" THEN Sat2(o.clearRun + 1) ELSE 0]
  IN  [afterSample EXCEPT
        !.events = Sat2(o.events + (IF fired THEN 1 ELSE 0)),
        !.rearms = Sat2(o.rearms + (IF rearmed THEN 1 ELSE 0)),
        !.cycleEvents = IF rearmed THEN 0
                        ELSE Sat2(o.cycleEvents + (IF fired THEN 1 ELSE 0)),
        !.unreported = IF fired THEN Sat2(afterFrame.unreported + 1)
                       ELSE afterFrame.unreported,
        !.sinceEvent = IF fired THEN 0 ELSE afterFrame.sinceEvent]

\* the button press a loop iteration finds: none (the button is up and was
\* up in the iteration before), one that has lasted 5000 ms or more, or a
\* short one, begun and still held or released in this iteration
PressSeen(btn, was, held) ==
  IF ~btn /\ ~was THEN "none"
  ELSE IF was /\ U32GE(held, 5000) THEN "long" ELSE "short"

\* a transmission is due at clock n: paired, and 300 ms or more since the
\* latest transmission
DueAt(n) == isPaired /\ U32GE(U32Sub(n, lastSend), 300)

\* what happens at a boot, as the transition table names it
BootEvent(wake, btnLow, held) ==
  IF btnLow
  THEN IF held >= 5000 THEN "boot_long_press"
       ELSE IF wake = "button" THEN "wake_button" ELSE "boot_press"
  ELSE IF wake = "charger" THEN "wake_charger"
       ELSE IF wake = "button" THEN "wake_released" ELSE "power_on"

\* ------------------------------------------------------------------------
\* Reset values, deep sleep, setup()
\* ------------------------------------------------------------------------
\* the initialisers of the globals and of the function statics
RamReset ==
  /\ batteryPercent' = 0
  /\ isCharging' = FALSE
  /\ bleStarted' = FALSE
  /\ lastBattUpdate' = 0
  /\ btnPressStart' = 0
  /\ btnWasPressed' = FALSE
  /\ chgLastBattUpdate' = 0
  /\ chgBtnPressStart' = 0
  /\ chgBtnWasPressed' = FALSE
  /\ tof_cm' = -1
  /\ baseline_cm' = 0
  /\ belowConsec' = 0
  /\ aboveConsec' = ABOVE_CONSEC_REQUIRED
  /\ startArmed' = TRUE
  /\ lastTriggerDetectionMs' = 0
  /\ prevStartTriggered' = FALSE
  /\ startTimestamp' = -1
  /\ isPaired' = FALSE
  /\ ANCHOR_UWB_NETWORK' = EmptyStr
  /\ ANCHOR_UWB_ADDRESS' = EmptyStr
  /\ lastSend' = 0
  /\ uwb_distance_cm' = -1
  /\ uwbSynced' = FALSE
  /\ uwbCfg' = << >>
  /\ txFrame' = NoFrame
  /\ at' = AtIdle
  /\ uwb' = UwbIdle
  /\ hnd' = HndIdle
  /\ job' = JobIdle
  /\ iter' = IterTop

\* the pins and the sleep controller as enterDeepSleep() finds them: the bus
\* lines are inputs after reset and after set3V3Rail(true), pulled down after
\* set3V3Rail(false); a reset leaves no wake source armed
HwNow ==
  [rail   |-> rail3V3On,
   sda    |-> IF rail3V3On \/ powerState = "DEEP_SLEEP" THEN "INPUT"
              ELSE "INPUT_PULLDOWN",
   scl    |-> IF rail3V3On \/ powerState = "DEEP_SLEEP" THEN "INPUT"
              ELSE "INPUT_PULLDOWN",
   wake   |-> IF powerState = "DEEP_SLEEP" THEN {} ELSE wakeSources,
   halted |-> FALSE]

\* a rail switch that sets the bus pins and leaves the rail as it is
Set3V3Rail_PinsOnly(h, on) ==
  [h EXCEPT !.sda = IF on THEN "INPUT" ELSE "INPUT_PULLDOWN",
            !.scl = IF on THEN "INPUT" ELSE "INPUT_PULLDOWN"]

Set3V3Rail_NoPulldown(h, on) ==
  [h EXCEPT !.rail = on, !.sda = "INPUT", !.scl = "INPUT"]

\* set3V3Rail(on)
Set3V3Rail(h, on) ==
  [h EXCEPT !.rail = on,
            !.sda = IF on THEN "INPUT" ELSE "INPUT_PULLDOWN",
            !.scl = IF on THEN "INPUT" ELSE "INPUT_PULLDOWN"]

\* esp_sleep_enable_ext0_wakeup(PIN_OTA_BTN, 0)
EnableExt0Wakeup(h) == [h EXCEPT !.wake = @ \cup {"button_low"}]

\* esp_sleep_enable_ext1_wakeup(1 << PIN_CHARGE_SENSE, ANY_HIGH)
EnableExt1Wakeup(h) == [h EXCEPT !.wake = @ \cup {"charger_high"}]

\* esp_deep_sleep_start(): does not return
DeepSleepStart(h) == [h EXCEPT !.halted = TRUE]

DeepSleepRun_ArmFirst(h) ==
  LET h1 == EnableExt0Wakeup(h)
      h2 == EnableExt1Wakeup(h1)
      h3 == Set3V3Rail(h2, FALSE)
      h4 == DeepSleepStart(h3)
  IN  <<h1, h2, h3, h4>>

DeepSleepRun_OneSource(h) ==
  LET h1 == Set3V3Rail(h, FALSE)
      h2 == EnableExt0Wakeup(h1)
      h3 == DeepSleepStart(h2)
  IN  <<h1, h2, h3>>

\* the statements of enterDeepSleep() in order, each applied to what the one
\* before it left: the hardware state after every statement
DeepSleepRun(h) ==
  LET h1 == Set3V3Rail(h, FALSE)
      h2 == EnableExt0Wakeup(h1)
      h3 == EnableExt1Wakeup(h2)
      h4 == DeepSleepStart(h3)
  IN  <<h1, h2, h3, h4>>

\* enterDeepSleep(): rail off, the two wake sources armed, execution ends;
\* RAM is not retained, the clock restarts at the next boot
EnterDeepSleep(e0) ==
  LET run  == DeepSleepRun(HwNow)
      last == run[Len(run)]
      e    == [e0 EXCEPT !.sleep = run]
  IN
  /\ powerState' = "DEEP_SLEEP"
  /\ rail3V3On' = last.rail
  /\ wakeSources' = last.wake
  /\ RamReset
  /\ now' = 0
  /\ t0' = 0
  /\ obs' = Obs0
  /\ ev' = e
  /\ UNCHANGED <<nvs, env>>

\* the device asleep (or unpowered) with store content s
Asleep(s) ==
  /\ powerState = "DEEP_SLEEP"
  /\ rail3V3On = FALSE
  /\ wakeSources = {}
  /\ batteryPercent = 0
  /\ isCharging = FALSE
  /\ bleStarted = FALSE
  /\ lastBattUpdate = 0
  /\ btnPressStart = 0
  /\ btnWasPressed = FALSE
  /\ chgLastBattUpdate = 0
  /\ chgBtnPressStart = 0
  /\ chgBtnWasPressed = FALSE
  /\ tof_cm = -1
  /\ baseline_cm = 0
  /\ belowConsec = 0
  /\ aboveConsec = ABOVE_CONSEC_REQUIRED
  /\ startArmed = TRUE
  /\ lastTriggerDetectionMs = 0
  /\ prevStartTriggered = FALSE
  /\ startTimestamp = -1
  /\ isPaired = FALSE
  /\ ANCHOR_UWB_NETWORK = EmptyStr
  /\ ANCHOR_UWB_ADDRESS = EmptyStr
  /\ lastSend = 0
  /\ uwb_distance_cm = -1
  /\ uwbSynced = FALSE
  /\ uwbCfg = << >>
  /\ txFrame = NoFrame
  /\ at = AtIdle
  /\ uwb = UwbIdle
  /\ hnd = HndIdle
  /\ job = JobIdle
  /\ env = Env0
  /\ iter = IterTop
  /\ now = 0
  /\ t0 = 0
  /\ obs = Obs0
  /\ ev = NoEv
  /\ nvs = s

\* pressDuration of setup(): the wait ends at release or after 5500 ms
BootPressDuration(held) ==
  IF held >= BOOT_PRESS_LIMIT_MS THEN BOOT_PRESS_LIMIT_MS ELSE held

\* a boot in which the charger decides the mode also after a button wake
BootMode_ChargerDecides(wake, btnLow, held, chg) ==
  IF btnLow /\ BootPressDuration(held) >= LONG_PRESS_MS THEN "OTA_MODE"
  ELSE IF btnLow /\ wake # "button" THEN "DEEP_SLEEP"
  ELSE IF wake = "charger" \/ chg THEN "CHARGING" ELSE "AWAKE_STANDBY"

\* setup(), "Determine boot mode"
BootMode(wake, btnLow, held, chg) ==
  IF btnLow
  THEN IF BootPressDuration(held) >= LONG_PRESS_MS THEN "OTA_MODE"
       ELSE IF wake = "button" THEN "AWAKE_STANDBY" ELSE "DEEP_SLEEP"
  ELSE IF wake = "charger" \/ chg THEN "CHARGING" ELSE "AWAKE_STANDBY"

SetupLoad_Twice(store) ==
  [paired |-> store.paired,
   net    |-> IF store.paired THEN StrNCpy15(GetString(store, "uwb_network"))
              ELSE EmptyStr,
   addr   |-> IF store.paired THEN StrNCpy15(GetString(store, "anchor_addr"))
              ELSE EmptyStr,
   ops    |-> <<"getBool", "getBool", "getString", "getString">>]

SetupLoad_Forget(store) ==
  [paired |-> store.paired, net |-> EmptyStr, addr |-> EmptyStr,
   ops |-> <<"getBool">>]

\* setup(), "Load pairing data from NVS": the flag, and the two identifiers
\* when the flag is set, with the store calls made
SetupLoad(store) ==
  [paired |-> store.paired,
   net    |-> IF store.paired THEN StrNCpy15(GetString(store, "uwb_network"))
              ELSE EmptyStr,
   addr   |-> IF store.paired THEN StrNCpy15(GetString(store, "anchor_addr"))
              ELSE EmptyStr,
   ops    |-> IF store.paired THEN <<"getBool", "getString", "getString">>
              ELSE <<"getBool">>]

\* setup(): wake is the wake-up cause ("button", "charger", "poweron"), btnLow
\* and held the button level and the time it stays low, chg and batt the
\* charger and battery readings, sync the result of uwbSync(), bootMs the
\* clock when setup() returns
Setup(wake, btnLow, held, chg, batt, sync, bootMs) ==
  /\ powerState = "DEEP_SLEEP"
  /\ LET mode   == BootMode(wake, btnLow, held, chg)
         paired == SetupLoad(nvs).paired
         net    == SetupLoad(nvs).net
         addr   == SetupLoad(nvs).addr
         e      == [NoEv EXCEPT !.op = "setup", !.mode = "DEEP_SLEEP",
                                !.kind = BootEvent(wake, btnLow, held),
                                !.chg = chg, !.wake = wake,
                                !.store = SetupLoad(nvs).ops]
     IN  IF mode = "DEEP_SLEEP"
         THEN EnterDeepSleep(e)
         ELSE /\ powerState' = mode
              /\ rail3V3On' = (mode # "CHARGING")
              /\ wakeSources' = {}
              /\ batteryPercent' = batt
              /\ isCharging' = chg
              /\ isPaired' = paired
              /\ ANCHOR_UWB_NETWORK' = net
              /\ ANCHOR_UWB_ADDRESS' = addr
              /\ bleStarted' = (mode = "AWAKE_STANDBY")
              /\ uwbSynced' = (mode = "AWAKE_STANDBY" /\ sync)
              /\ uwbCfg' = IF mode = "AWAKE_STANDBY" /\ sync
                           THEN (IF paired THEN ConfigureUWB(net)
                                 ELSE DefaultConfig)
                           ELSE << >>
              /\ startArmed' = TRUE
              /\ prevStartTriggered' = FALSE
              /\ now' = bootMs
              /\ t0' = bootMs
              /\ obs' = Obs0
              /\ ev' = e
              /\ iter' = IterTop
              /\ UNCHANGED <<nvs, lastBattUpdate, btnPressStart, btnWasPressed,
                             chgLastBattUpdate, chgBtnPressStart,
                             chgBtnWasPressed, tof_cm, baseline_cm, belowConsec,
                             aboveConsec, lastTriggerDetectionMs,
                             startTimestamp, lastSend, uwb_distance_cm,
                             txFrame, ioVars>>

\* ------------------------------------------------------------------------
\* loop()
\* ------------------------------------------------------------------------
LoopEv(k, n) ==
  [NoEv EXCEPT !.op = "loop", !.mode = powerState, !.kind = k,
               !.due = DueAt(n)]

\* an OTA entry that does not wait for a callback in progress
StartWiFiAndOTA_NoJoin ==
  /\ powerState' = "OTA_MODE"
  /\ bleStarted' = FALSE

\* startWiFiAndOTA(): if (bleServer) NimBLEDevice::deinit(false), which stops
\* the host task and returns once a callback running on it has returned;
\* then the WiFi connection, ArduinoOTA.begin() and powerState = OTA_MODE
StartWiFiAndOTA ==
  /\ bleStarted => hnd.pc = "idle"
  /\ powerState' = "OTA_MODE"
  /\ bleStarted' = FALSE

\* OTA_MODE branch: ArduinoOTA.handle(); return
LoopOTA(n) ==
  /\ now' = n
  /\ ev' = LoopEv("none", n)
  /\ txFrame' = NoFrame
  /\ iter' = IterTop
  /\ UNCHANGED <<t0, powerVars, detVars, pairVars, lastSend, uwb_distance_cm,
                 uwbSynced, uwbCfg, obs, ioVars>>

\* PAIRING_MODE branch: animation and status notification; return
LoopPairing(n) ==
  /\ now' = n
  /\ ev' = LoopEv("none", n)
  /\ txFrame' = NoFrame
  /\ iter' = IterTop
  /\ UNCHANGED <<t0, powerVars, detVars, pairVars, lastSend, uwb_distance_cm,
                 uwbSynced, uwbCfg, obs, ioVars>>

\* CHARGING branch
LoopCharging(n, btn, chg, batt, sync) ==
  LET upd     == U32GE(U32Sub(n, chgLastBattUpdate), CHG_BATT_PERIOD_MS)
      chg1    == IF upd THEN chg ELSE isCharging
      held    == U32Sub(n, chgBtnPressStart)
      toOTA   == btn /\ chgBtnWasPressed /\ U32GE(held, LONG_PRESS_MS)
      toWake  == ~btn /\ chgBtnWasPressed /\ U32LT(held, LONG_PRESS_MS)
      toSleep == ~toOTA /\ ~toWake /\ ~chg1
      k       == IF toOTA THEN "long_press"
                 ELSE IF toWake THEN "short_press"
                 ELSE IF toSleep THEN "charger_off" ELSE "none"
      e       == [LoopEv(k, n) EXCEPT
                    !.chg = chg1,
                    !.press = PressSeen(btn, chgBtnWasPressed, held)]
  IN  IF toSleep THEN EnterDeepSleep(e)
      ELSE
      /\ now' = n
      /\ ev' = e
      /\ isCharging' = chg1
      /\ batteryPercent' = IF upd THEN batt ELSE batteryPercent
      /\ chgLastBattUpdate' = IF upd THEN n ELSE chgLastBattUpdate
      /\ chgBtnPressStart' = IF btn /\ ~chgBtnWasPressed THEN n
                             ELSE chgBtnPressStart
      /\ chgBtnWasPressed' = IF toOTA \/ toWake THEN chgBtnWasPressed ELSE btn
      /\ rail3V3On' = (toOTA \/ toWake \/ rail3V3On)
      /\ IF toOTA THEN StartWiFiAndOTA
         ELSE /\ powerState' = IF toWake THEN "AWAKE_STANDBY" ELSE powerState
              /\ UNCHANGED bleStarted
      /\ uwbSynced' = IF toWake THEN sync ELSE uwbSynced
      /\ uwbCfg' = IF toWake /\ sync /\ isPaired
                   THEN ConfigureUWB(ANCHOR_UWB_NETWORK) ELSE uwbCfg
      /\ startArmed' = IF toWake THEN TRUE ELSE startArmed
      /\ baseline_cm' = IF toWake THEN 0 ELSE baseline_cm
      /\ txFrame' = NoFrame
      /\ iter' = IterTop
      /\ UNCHANGED <<t0, wakeSources, lastBattUpdate, btnPressStart,
                     btnWasPressed, tof_cm, belowConsec, aboveConsec,
                     lastTriggerDetectionMs, prevStartTriggered, startTimestamp,
                     pairVars, lastSend, uwb_distance_cm, obs, ioVars>>

\* an iteration that handles the start edge before it calls pollUWB()
LoopOrder_DetectorFirst(paired, last, ts, batt, dcm, addr, pn, edge, n) ==
  PollSend(paired, last, IF edge THEN ToInt32(n) ELSE ts, batt, dcm, addr, pn)

\* loop(): pollUWB() is called right after the sensor is read, and its send
\* half reads startTimestamp and uwb_distance_cm as the previous iteration
\* left them; the detector runs after it, and at the start edge
\* startTimestamp = now ("Will be sent via UWB in next poll")
LoopOrder(paired, last, ts, batt, dcm, addr, pn, edge, n) ==
  LET tx == PollSend(paired, last, ts, batt, dcm, addr, pn)
  IN  [tx EXCEPT !.startTimestamp = IF edge THEN ToInt32(n) ELSE @]

\* AWAKE branch (AWAKE_STANDBY, AWAKE_RUNNING): paired is isPaired as the test
\* at the top of pollUWB() reads it, ready and dist_mm are
\* tof.checkForDataReady() and tof.getDistance(), rcv what the receive half
\* of pollUWB() leaves (the distance, the line under assembly, the receive
\* buffer, the lines it completed), dp the time between the millis() of
\* loop() and the millis() of pollUWB()
AwakeIO(paired, n, btn, chg, batt, ready, dist_mm, rcv, dp) ==
  LET upd     == U32GE(U32Sub(n, lastBattUpdate), BATT_PERIOD_MS)
      batt1   == IF upd THEN batt ELSE batteryPercent
      held    == U32Sub(n, btnPressStart)
      toOTA   == btn /\ btnWasPressed /\ U32GE(held, LONG_PRESS_MS)
      toSleep == ~btn /\ btnWasPressed /\ U32LT(held, LONG_PRESS_MS)
      tof1    == IF ready THEN dist_mm \div 10 ELSE tof_cm
      pn      == U32Add(n, dp)
      d       == Detection([DetState EXCEPT !.tof_cm = tof1], n)
      edge    == d.startTriggered /\ ~prevStartTriggered
      tx      == LoopOrder(paired, lastSend, startTimestamp, batt1,
                           uwb_distance_cm, ANCHOR_UWB_ADDRESS, pn, edge, n)
      cur     == ClampCm(tof1)
      k       == IF tof1 > 0
                 THEN SampleKind(obs, IF baseline_cm = 0 THEN cur
                                      ELSE baseline_cm, cur, n)
                 ELSE "none"
  IN  IF toSleep THEN EnterDeepSleep(LoopEv("short_press", n))
      ELSE
      /\ now' = n
      /\ batteryPercent' = batt1
      /\ isCharging' = IF upd THEN chg ELSE isCharging
      /\ lastBattUpdate' = IF upd THEN n ELSE lastBattUpdate
      /\ btnPressStart' = IF btn /\ ~btnWasPressed THEN n ELSE btnPressStart
      /\ IF toOTA
         THEN /\ StartWiFiAndOTA
              /\ ev' = LoopEv("long_press", n)
              /\ txFrame' = NoFrame
              /\ UNCHANGED <<btnWasPressed, detVars, lastSend, uwb_distance_cm,
                             obs, uwb>>
         ELSE /\ btnWasPressed' = btn
              /\ tof_cm' = tof1
              /\ txFrame' = tx.frame
              /\ lastSend' = tx.lastSend
              /\ uwb_distance_cm' = rcv.dcm
              /\ uwb' = [uwb EXCEPT !.rx = rcv.rx, !.line = rcv.line]
              /\ baseline_cm' = d.baseline_cm
              /\ belowConsec' = d.belowConsec
              /\ aboveConsec' = d.aboveConsec
              /\ startArmed' = d.startArmed
              /\ lastTriggerDetectionMs' = d.lastTrig
              /\ powerState' = d.powerState
              /\ startTimestamp' = tx.startTimestamp
              /\ prevStartTriggered' = d.startTriggered
              /\ ev' = [LoopEv(IF edge THEN "start_event"
                               ELSE IF d.rearmed THEN "rearm" ELSE "none", pn)
                          EXCEPT !.fired = edge, !.rearmed = d.rearmed,
                                 !.polled = TRUE, !.fresh = ready,
                                 !.sample = k, !.lines = rcv.lines]
              /\ obs' = ObsLoop(obs, k, ready, edge, d.rearmed, tx.frame, n)
              /\ UNCHANGED bleStarted
      /\ iter' = IterTop
      /\ UNCHANGED <<t0, rail3V3On, wakeSources, chgLastBattUpdate,
                     chgBtnPressStart, chgBtnWasPressed, pairVars, uwbSynced,
                     uwbCfg, at, hnd, job, env>>

\* the awake branch when rx is the number parsed from the one inbound line
\* completed in this call of pollUWB() (0: none)
AwakeRun(paired, n, btn, chg, batt, ready, dist_mm, rx, dp) ==
  AwakeIO(paired, n, btn, chg, batt, ready, dist_mm,
          [dcm |-> PollReceive(uwb_distance_cm, rx), rx |-> uwb.rx,
           line |-> uwb.line, lines |-> << >>], dp)

\* the awake branch when pollUWB() reads what the receive buffer holds
AwakeBytes(n, btn, chg, batt, ready, dist_mm, dp) ==
  AwakeIO(isPaired, n, btn, chg, batt, ready, dist_mm,
          PollBytes([dcm |-> uwb_distance_cm, rx |-> uwb.rx,
                     line |-> uwb.line, lines |-> << >>]), dp)

\* an iteration that no other task interleaves with
LoopAwake(n, btn, chg, batt, ready, dist_mm, rx, dp) ==
  AwakeRun(isPaired, n, btn, chg, batt, ready, dist_mm, rx, dp)

\* one iteration of loop(), dt after the previous one began
LoopStep(dt, btn, chg, batt, sync, ready, dist_mm, rx, dp) ==
  /\ powerState # "DEEP_SLEEP"
  /\ LET n == U32Add(now, dt)
     IN  CASE powerState = "OTA_MODE"     -> LoopOTA(n)
           [] powerState = "CHARGING"     -> LoopCharging(n, btn, chg, batt, sync)
           [] powerState = "PAIRING_MODE" -> LoopPairing(n)
           [] OTHER -> LoopAwake(n, btn, chg, batt, ready, dist_mm, rx, dp)

\* ------------------------------------------------------------------------
\* BLE write handlers, each taken as one step
\* ------------------------------------------------------------------------
\* a field the payload does not hold (key or quotes not found)
NoField == << "nofield" >>

\* NetworkCfgCB::handleWrite: the buffer after the parse of one field
ParsedField(buf, f) == IF f = NoField THEN buf ELSE StrNCpy15(f)

HandlerEv(o, k) == [NoEv EXCEPT !.op = o, !.mode = powerState, !.kind = k]

\* the history after a BLE write: the writes are counted up to MaxWrites
ObsWrite(o) == [o EXCEPT !.writes = Min(o.writes + 1, MaxWrites)]

\* std::string::npos
NPOS == -1

\* pos + 1 in size_t: npos + 1 is 0
SizeInc(pos) == IF pos = NPOS THEN 0 ELSE pos + 1

\* v.find(pat, pos): the first index (from 0) at or after pos where pat
\* begins, npos when there is none or pos is past the end
Find(v, pat, pos) ==
  LET hits == {i \in 0..(Len(v) - Len(pat)) :
                 i >= pos /\ SubSeq(v, i + 1, i + Len(pat)) = pat}
  IN  IF pos = NPOS \/ hits = {} THEN NPOS
      ELSE CHOOSE i \in hits : \A j \in hits : i <= j

\* v.substr(pos, n)
Substr(v, pos, n) == SubSeq(v, pos + 1, Min(pos + n, Len(v)))

Quote == <<"\"">>

Colon == <<":">>

\* "\"network_id\""
KeyNet ==
  <<"\"", "n", "e", "t", "w", "o", "r", "k", "_", "i", "d", "\"">>

\* "\"anchor_address\""
KeyAddr ==
  <<"\"", "a", "n", "c", "h", "o", "r", "_", "a", "d", "d", "r", "e", "s",
    "s", "\"">>

\* a parse that gives up on the address when the network identifier is missing
FindField_NetFirst(v, key) ==
  LET keyPos      == Find(v, key, 0)
      colonPos    == Find(v, Colon, keyPos)
      firstQuote  == Find(v, Quote, colonPos)
      secondQuote == Find(v, Quote, SizeInc(firstQuote))
  IN  IF keyPos # NPOS /\ firstQuote # NPOS /\ secondQuote # NPOS
         /\ Find(v, KeyNet, 0) # NPOS
      THEN Substr(v, firstQuote + 1, secondQuote - firstQuote - 1)
      ELSE NoField

\* a parse that takes the first quoted string of the payload after the first
\* colon, wherever the key is
FindField_AnyColon(v, key) ==
  LET keyPos      == Find(v, key, 0)
      colonPos    == Find(v, Colon, 0)
      firstQuote  == Find(v, Quote, colonPos)
      secondQuote == Find(v, Quote, SizeInc(firstQuote))
  IN  IF keyPos # NPOS /\ firstQuote # NPOS /\ secondQuote # NPOS
      THEN Substr(v, firstQuote + 1, secondQuote - firstQuote - 1)
      ELSE NoField

\* NetworkCfgCB::handleWrite, the search for one field: the key, the colon
\* after it, the quote after the colon, the quote after that one; the
\* characters between the two quotes, or no field
FindField(v, key) ==
  LET keyPos      == Find(v, key, 0)
      colonPos    == Find(v, Colon, keyPos)
      firstQuote  == Find(v, Quote, colonPos)
      secondQuote == Find(v, Quote, SizeInc(firstQuote))
  IN  IF keyPos # NPOS /\ firstQuote # NPOS /\ secondQuote # NPOS
      THEN Substr(v, firstQuote + 1, secondQuote - firstQuote - 1)
      ELSE NoField

\* the two fields as the handler finds them in the written value v
ParsePayload(v) ==
  [net |-> FindField(v, KeyNet), addr |-> FindField(v, KeyAddr)]

\* NetworkCfgCB::handleWrite(payload p = [net, addr]), d the written value
\* when the step began with it
NetworkCfgHandle(p, d) ==
  /\ bleStarted
  /\ LET net  == ParsedField(ANCHOR_UWB_NETWORK, p.net)
         addr == ParsedField(ANCHOR_UWB_ADDRESS, p.addr)
     IN  /\ ANCHOR_UWB_NETWORK' = net
         /\ ANCHOR_UWB_ADDRESS' = addr
         /\ nvs' = NvsPaired(net, addr)
         /\ isPaired' = TRUE
         /\ uwbCfg' = ConfigureUWB(net)
         /\ powerState' = "AWAKE_STANDBY"
  /\ ev' = [HandlerEv("netcfg", "handshake") EXCEPT
             !.payload = d, !.store = <<"putString", "putString", "putBool">>]
  /\ obs' = ObsWrite(obs)
  /\ UNCHANGED <<now, t0, rail3V3On, isCharging, batteryPercent, bleStarted,
                 wakeSources, lastBattUpdate, btnPressStart, btnWasPressed,
                 chgLastBattUpdate, chgBtnPressStart, chgBtnWasPressed, detVars,
                 lastSend, uwb_distance_cm, uwbSynced, txFrame, ioVars, iter>>

NetworkCfgWrite(p) == NetworkCfgHandle(p, << >>)

\* the handler from the bytes of the written value
NetworkCfgRaw(v) == NetworkCfgHandle(ParsePayload(v), v)

\* CtrlCB::handleWrite, "enter_pairing_mode":true or "pairing":true
CtrlEnterPairing ==
  /\ bleStarted
  /\ powerState' = "PAIRING_MODE"
  /\ ev' = HandlerEv("ctrl", "enter_pairing")
  /\ obs' = ObsWrite(obs)
  /\ UNCHANGED <<now, t0, rail3V3On, isCharging, batteryPercent, bleStarted,
                 wakeSources, lastBattUpdate, btnPressStart, btnWasPressed,
                 chgLastBattUpdate, chgBtnPressStart, chgBtnWasPressed, detVars,
                 pairVars, radioVars, ioVars, iter>>

\* CtrlCB::handleWrite, "unpair":true
CtrlUnpair ==
  /\ bleStarted
  /\ ANCHOR_UWB_NETWORK' = EmptyStr
  /\ ANCHOR_UWB_ADDRESS' = EmptyStr
  /\ isPaired' = FALSE
  /\ nvs' = NvsUnpaired
  /\ ev' = [HandlerEv("ctrl", "unpair") EXCEPT
             !.store = <<"remove", "remove", "putBool">>]
  /\ obs' = ObsWrite(obs)
  /\ UNCHANGED <<now, t0, powerVars, detVars, radioVars, ioVars, iter>>

\* CtrlCB::handleWrite, a value that holds none of the commands
CtrlOther ==
  /\ bleStarted
  /\ ev' = HandlerEv("ctrl", "other")
  /\ obs' = ObsWrite(obs)
  /\ UNCHANGED <<now, t0, powerVars, detVars, pairVars, radioVars, ioVars, iter>>

vars ==
  <<now, t0, powerVars, detVars, pairVars, radioVars, ioVars, iter, ev, obs>>

\* the modelled window: loop iterations run while fewer than MaxMs
\* milliseconds have passed since t0
InWindow == U32LT(U32Sub(now, t0), MaxMs)

\* ------------------------------------------------------------------------
\* SpecDetect: an unpaired device, booted into standby, fed with samples
\* ------------------------------------------------------------------------
\* sensor readings in millimetres: too close to be valid, two distances of a
\* passing runner, a free line of sight beyond the 183 cm clamp
SamplesMm == {5, 1600, 1750, 2000}

\* time from one loop iteration to the next
StepMs == 100

BootMs == 1000

InitDetect == Asleep(NvsUnpaired)

BootDetect == Setup("poweron", FALSE, 0, FALSE, 80, TRUE, BootMs)

LoopDetect ==
  /\ InWindow
  /\ \E ready \in BOOLEAN, mm \in SamplesMm :
       LoopStep(StepMs, FALSE, FALSE, 80, TRUE, ready, mm, 0, 0)

NextDetect == BootDetect \/ LoopDetect

SpecDetect == InitDetect /\ [][NextDetect]_vars

\* ------------------------------------------------------------------------
\* SpecTele: detector, telemetry and the BLE handlers
\* ------------------------------------------------------------------------
\* a clock value shortly before the sign bit of the clock sets (2^31 - 200)
LateClock == 2147483448

\* loop() in PAIRING_MODE returns at once, and iterates so for as long as no
\* network configuration is written: the iterations up to clock LateClock,
\* after which a new window of MaxMs begins
LongPairingWait ==
  /\ powerState = "PAIRING_MODE"
  /\ now >= 0 /\ now < LateClock
  /\ now' = LateClock
  /\ t0' = LateClock
  /\ ev' = LoopEv("none", LateClock)
  /\ txFrame' = NoFrame
  /\ iter' = IterTop
  /\ UNCHANGED <<powerVars, detVars, pairVars, lastSend, uwb_distance_cm,
                 uwbSynced, uwbCfg, obs, ioVars>>

TeleSamplesMm == {1600, 2000}

TelePayloads == {[net |-> NetA, addr |-> AddrA]}

InitTele == Asleep(NvsUnpaired) \/ Asleep(NvsPaired(NetA, AddrA))

BootTele ==
  \E sync \in BOOLEAN : Setup("poweron", FALSE, 0, FALSE, 80, sync, BootMs)

LoopTele ==
  /\ InWindow
  /\ \E mm \in TeleSamplesMm :
       LoopStep(StepMs, FALSE, FALSE, 80, TRUE, TRUE, mm, 0, 0)

NetCfgTele ==
  /\ obs.writes < MaxWrites
  /\ \E p \in TelePayloads : NetworkCfgWrite(p)

EnterPairingTele == obs.writes < MaxWrites /\ CtrlEnterPairing

NextTele ==
  \/ BootTele
  \/ LoopTele
  \/ NetCfgTele
  \/ EnterPairingTele
  \/ LongPairingWait

SpecTele == InitTele /\ [][NextTele]_vars

\* ------------------------------------------------------------------------
\* SpecPair: pairing, unpairing and the telemetry cadence
\* ------------------------------------------------------------------------
\* a free line of sight and a passing runner
PairSamplesMm == {1600, 2000}

\* network-config payloads in which both, one or none of the two fields are
\* found, one of them with an identifier longer than the buffer
PairPayloads ==
  {[net |-> n, addr |-> a] : n \in {NetB, LongId, NoField},
                             a \in {AddrB, NoField}}

InitPair == Asleep(NvsUnpaired) \/ Asleep(NvsPaired(NetA, AddrA))

BootPair ==
  \E sync \in BOOLEAN : Setup("poweron", FALSE, 0, FALSE, 80, sync, BootMs)

LoopPair ==
  /\ U32LT(U32Sub(now, t0), PairMaxMs)
  /\ \E mm \in PairSamplesMm :
       LoopStep(StepMs, FALSE, FALSE, 80, TRUE, TRUE, mm, 0, 0)

NetCfgPair ==
  /\ obs.writes < MaxWrites
  /\ \E p \in PairPayloads : NetworkCfgWrite(p)

EnterPairingPair == obs.writes < MaxWrites /\ CtrlEnterPairing

UnpairPair == obs.writes < MaxWrites /\ CtrlUnpair

OtherPair == obs.writes < MaxWrites /\ CtrlOther

NextPair ==
  \/ BootPair
  \/ LoopPair
  \/ NetCfgPair
  \/ EnterPairingPair
  \/ UnpairPair
  \/ OtherPair

SpecPair == InitPair /\ [][NextPair]_vars

\* ------------------------------------------------------------------------
\* SpecParse: network-config writes given as the characters of the payload
\* ------------------------------------------------------------------------
\* "anchor_address" and "network_id" as identifier values
AddrWord == SubSeq(KeyAddr, 2, Len(KeyAddr) - 1)

NetWord == SubSeq(KeyNet, 2, Len(KeyNet) - 1)

\* one field of a payload: key, colon (after a blank when sp), quoted value
RenderField(key, val, sp) ==
  key \o (IF sp THEN <<" ">> ELSE << >>) \o Colon \o Quote \o val \o Quote

\* the JSON object holding the fields of d that are not NoField, the network
\* identifier first when d.netFirst
Render(d) ==
  LET n == IF d.net = NoField THEN << >>
           ELSE <<RenderField(KeyNet, d.net, d.sp)>>
      a == IF d.addr = NoField THEN << >>
           ELSE <<RenderField(KeyAddr, d.addr, d.sp)>>
      fs == IF d.netFirst THEN n \o a ELSE a \o n
  IN  <<"{">> \o (IF Len(fs) = 0 THEN << >>
                  ELSE IF Len(fs) = 1 THEN fs[1]
                  ELSE fs[1] \o <<",">> \o fs[2]) \o <<"}">>

\* payloads with both, one or none of the two fields, in both orders, with
\* empty and over-long identifiers and with identifiers that spell the
\* other field's key
ParseDescs ==
  [net : {NoField, NetB, EmptyStr, LongId, AddrWord},
   addr : {NoField, AddrB, NetWord},
   netFirst : BOOLEAN, sp : BOOLEAN]

RawPayloads == {Render(d) : d \in ParseDescs}

InitParse == Asleep(NvsUnpaired) \/ Asleep(NvsPaired(NetA, AddrA))

BootParse == Setup("poweron", FALSE, 0, FALSE, 80, TRUE, BootMs)

LoopParse ==
  /\ U32LT(U32Sub(now, t0), PairMaxMs)
  /\ LoopStep(StepMs, FALSE, FALSE, 80, TRUE, TRUE, 2000, 0, 0)

NetCfgParse ==
  /\ obs.writes < MaxWrites
  /\ \E v \in RawPayloads : NetworkCfgRaw(v)

NextParse ==
  \/ BootParse
  \/ LoopParse
  \/ NetCfgParse

SpecParse == InitParse /\ [][NextParse]_vars

\* the wake-up cause a boot can report: power-on, or a wake source that
\* enterDeepSleep() has armed
WakeCauses ==
  {"poweron"} \cup (IF "button_low" \in wakeSources THEN {"button"} ELSE {})
              \cup (IF "charger_high" \in wakeSources THEN {"charger"} ELSE {})

\* ------------------------------------------------------------------------
\* SpecLine: the radio module sends lines, pollUWB() reads them
\* ------------------------------------------------------------------------
\* bytes that arrive together in SpecLine
LineChunk == 12

\* size of the receive buffer in SpecLine
LineMaxRx == 140

\* length in milliseconds of the window of SpecLine
LineMaxMs == 400

\* complete lines that may wait in the receive buffer when the radio module
\* begins to send another one
LineQueue == 1

\* digits of 7, 0, 65534, 65535 and 4294967297 (1 modulo 2^32), or none
LineNums ==
  { << >>, <<"7">>, <<"0">>, <<"6", "5", "5", "3", "4">>,
    <<"6", "5", "5", "3", "5">>,
    <<"4", "2", "9", "4", "9", "6", "7", "2", "9", "7">> }

\* the lines of SpecLine: a report (with or without the marker, with or
\* without the unit suffix), the suffix before the marker, a report after 115
\* other characters and one followed by 115 other characters
LineDescs ==
  [form : {"report"}, mark : {TRUE}, suf : {TRUE}, num : LineNums]
    \cup [form : {"report"}, mark : BOOLEAN, suf : BOOLEAN, num : {<<"7">>}]
    \cup [form : {"swapped", "long_head", "long_tail"}, mark : {TRUE},
          suf : {TRUE}, num : {<<"7">>}]

Filler == [i \in 1..115 |-> "x"]

Report(d) ==
  (IF d.mark THEN TagRcv ELSE <<"+", "O", "K", "=">>) \o <<"5", ",">>
    \o d.num \o (IF d.suf THEN CmSuffix ELSE << >>)

\* the characters of the line d, without its end
RenderLine(d) ==
  CASE d.form = "report"    -> Report(d)
    [] d.form = "swapped"   -> d.num \o CmSuffix \o TagRcv
    [] d.form = "long_head" -> Filler \o Report(d)
    [] d.form = "long_tail" -> Report(d) \o Filler

InitLine == Asleep(NvsUnpaired)

BootLine == Setup("poweron", FALSE, 0, FALSE, 80, TRUE, BootMs)

\* the radio module begins to send a line, ended by CR LF
LineSends ==
  /\ powerState # "DEEP_SLEEP"
  /\ uwb.wire = << >>
  /\ Len(SelectSeq(uwb.rx, LAMBDA c : c = LF)) < LineQueue
  /\ \E d \in LineDescs : uwb' = [uwb EXCEPT !.wire = RenderLine(d) \o <<CR, LF>>]
  /\ ev' = [NoEv EXCEPT !.op = "module"]
  /\ UNCHANGED <<now, t0, powerVars, detVars, pairVars, radioVars, at, hnd, env,
                 job, obs, iter>>

\* the next bytes of the line, or all that is left of it, arrive in the
\* receive buffer
LineArrives ==
  /\ uwb.wire # << >>
  /\ \E k \in {Min(LineChunk, Len(uwb.wire)), Len(uwb.wire)} :
       /\ Len(uwb.rx) + k <= LineMaxRx
       /\ uwb' = [uwb EXCEPT
                    !.rx = uwb.rx \o SubSeq(uwb.wire, 1, k),
                    !.wire = SubSeq(uwb.wire, k + 1, Len(uwb.wire))]
  /\ ev' = [NoEv EXCEPT !.op = "module"]
  /\ UNCHANGED <<now, t0, powerVars, detVars, pairVars, radioVars, at, hnd, env,
                 job, obs, iter>>

LoopLine ==
  /\ powerState \in {"AWAKE_STANDBY", "AWAKE_RUNNING"}
  /\ U32LT(U32Sub(now, t0), LineMaxMs)
  /\ AwakeBytes(U32Add(now, StepMs), FALSE, FALSE, 80, TRUE, 2000, 0)

NextLine ==
  \/ BootLine
  \/ LineSends
  \/ LineArrives
  \/ LoopLine

SpecLine == InitLine /\ [][NextLine]_vars

\* ------------------------------------------------------------------------
\* SpecFrame: a paired device sends frames with every battery reading,
\* distances reported or not, start events pending or not
\* ------------------------------------------------------------------------
\* battery voltages read in SpecFrame, in millivolts (7128 is the highest
\* the converter gives)
FrameMilliVolts == {0, 3200, 3294, 3295, 3704, 4195, 4200, 7128}

\* numbers parsed from inbound lines in SpecFrame (0: no line)
FrameRx == {0, 7, 65534, 65535}

\* length in milliseconds of the window of SpecFrame
FrameMaxMs == 700

InitFrame == Asleep(NvsPaired(NetA, AddrA))

BootFrame ==
  \E mv \in FrameMilliVolts :
    Setup("poweron", FALSE, 0, FALSE, VoltageToBatteryPercent(mv), TRUE, BootMs)

LoopFrame ==
  /\ U32LT(U32Sub(now, t0), FrameMaxMs)
  /\ \E mm \in TeleSamplesMm, rx \in FrameRx, dp \in {0, 1} :
       LoopStep(StepMs, FALSE, FALSE, batteryPercent, TRUE, TRUE, mm, rx, dp)

NextFrame ==
  \/ BootFrame
  \/ LoopFrame

SpecFrame == InitFrame /\ [][NextFrame]_vars

\* ------------------------------------------------------------------------
\* SpecStore: pairing writes, unpairing, deep sleep, power cycles and boots
\* ------------------------------------------------------------------------
\* power is removed and comes back: RAM and the sleep configuration are lost,
\* the store is kept
PowerCycle ==
  /\ powerState # "DEEP_SLEEP"
  /\ powerState' = "DEEP_SLEEP"
  /\ rail3V3On' = FALSE
  /\ wakeSources' = {}
  /\ RamReset
  /\ now' = 0
  /\ t0' = 0
  /\ obs' = Obs0
  /\ ev' = [NoEv EXCEPT !.op = "power_cycle", !.mode = powerState]
  /\ UNCHANGED <<nvs, env>>

\* payloads with both, one or none of the fields, identifiers of at most 15
\* characters
StorePayloads ==
  {[net |-> n, addr |-> a] : n \in {NetA, NetB, NoField},
                             a \in {AddrA, NoField}}

InitStore == Asleep(NvsUnpaired)

BootStore ==
  \E wake \in WakeCauses, chg \in BOOLEAN, sync \in BOOLEAN :
    Setup(wake, FALSE, 0, chg, 80, sync, BootMs)

LoopStore ==
  /\ U32LT(U32Sub(now, t0), PairMaxMs)
  /\ \E btn \in BOOLEAN, chg \in BOOLEAN :
       LoopStep(StepMs, btn, chg, 80, TRUE, TRUE, 2000, 0, 0)

NetCfgStore ==
  /\ obs.writes < MaxWrites
  /\ \E p \in StorePayloads : NetworkCfgWrite(p)

UnpairStore == obs.writes < MaxWrites /\ CtrlUnpair

NextStore ==
  \/ BootStore
  \/ LoopStore
  \/ NetCfgStore
  \/ UnpairStore
  \/ PowerCycle

SpecStore == InitStore /\ [][NextStore]_vars

\* ------------------------------------------------------------------------
\* SpecPower: boots, button, charger, detector and BLE writes
\* ------------------------------------------------------------------------
\* time from one loop iteration to the next in SpecPower
PowerStepMs == 1000

\* length in milliseconds of the window of SpecPower
PowerMaxMs == 7000

\* how long the button stays low at boot: a short and a long press
BootHeldMs == {100, 5500}

InitPower == Asleep(NvsUnpaired)

BootPower ==
  \E wake \in WakeCauses, btnLow \in BOOLEAN, held \in BootHeldMs,
     chg \in BOOLEAN :
    Setup(wake, btnLow, held, chg, 80, TRUE, BootMs)

LoopPower ==
  /\ U32LT(U32Sub(now, t0), PowerMaxMs)
  /\ \E btn \in BOOLEAN, chg \in BOOLEAN, mm \in PairSamplesMm :
       LoopStep(PowerStepMs, btn, chg, 80, TRUE, TRUE, mm, 0, 0)

NetCfgPower ==
  /\ obs.writes < MaxWrites
  /\ NetworkCfgWrite([net |-> NetA, addr |-> AddrA])

EnterPairingPower == obs.writes < MaxWrites /\ CtrlEnterPairing

UnpairPower == obs.writes < MaxWrites /\ CtrlUnpair

NextPower ==
  \/ BootPower
  \/ LoopPower
  \/ NetCfgPower
  \/ EnterPairingPower
  \/ UnpairPower

SpecPower == InitPower /\ [][NextPower]_vars

\* ------------------------------------------------------------------------
\* sendAT(cmd, timeoutMs, waitForOK)
\* ------------------------------------------------------------------------
\* String::trim(): leading and trailing white space removed
RECURSIVE TrimLeft(_)
TrimLeft(l) ==
  IF l # << >> /\ Head(l) = " " THEN TrimLeft(Tail(l)) ELSE l

RECURSIVE TrimRight(_)
TrimRight(l) ==
  IF l # << >> /\ l[Len(l)] = " " THEN TrimRight(SubSeq(l, 1, Len(l) - 1))
  ELSE l

Trim(l) == TrimRight(TrimLeft(l))

\* String::startsWith
StartsWith(l, tok) == Len(l) >= Len(tok) /\ SubSeq(l, 1, Len(tok)) = tok

TokReady == <<"+", "R", "E", "A", "D", "Y">>

TokOK == <<"+", "O", "K">>

TokErr == <<"+", "E", "R", "R">>

\* a sendAT() that treats a "+READY" line as any other line
LineResult_NoReady(line, waitForOK) ==
  IF waitForOK
  THEN IF StartsWith(line, TokOK) THEN "true"
       ELSE IF StartsWith(line, TokErr) THEN "false" ELSE "continue"
  ELSE "true"

\* what sendAT() does with a complete, trimmed line: return true, return
\* false, or go on reading
LineResult(line, waitForOK) ==
  IF StartsWith(line, TokReady) THEN "true"
  ELSE IF waitForOK
       THEN IF StartsWith(line, TokOK) THEN "true"
            ELSE IF StartsWith(line, TokErr) THEN "false" ELSE "continue"
       ELSE "true"

\* UWB.print(cmd); UWB.print("\r\n"); start = millis(); String line
\* (job is left to the caller)
SendATBegin(timeoutMs, waitForOK) ==
  /\ at.pc = "idle"
  /\ at' = [AtIdle EXCEPT !.pc = "outer", !.start = now,
                          !.timeoutMs = timeoutMs, !.waitForOK = waitForOK]
  /\ ev' = [NoEv EXCEPT !.op = "sendAT", !.kind = "begin"]
  /\ UNCHANGED <<now, t0, powerVars, detVars, pairVars, radioVars, uwb, hnd, env,
                 obs, iter>>

\* while (millis() - start < timeoutMs) ... return false
SendATOuter ==
  /\ at.pc = "outer"
  /\ at' = IF U32LT(U32Sub(now, at.start), at.timeoutMs)
           THEN [at EXCEPT !.pc = "inner"]
           ELSE [at EXCEPT !.pc = "done", !.result = FALSE,
                           !.exit = "timeout", !.end = now]
  /\ ev' = [NoEv EXCEPT !.op = "sendAT", !.kind = "outer"]
  /\ UNCHANGED <<now, t0, powerVars, detVars, pairVars, radioVars, uwb, hnd, env,
                 job, obs, iter>>

\* while (UWB.available()) { char c = UWB.read(); ... }
SendATInner ==
  /\ at.pc = "inner"
  /\ IF uwb.rx = << >>
     THEN /\ at' = [at EXCEPT !.pc = "outer"]
          /\ UNCHANGED uwb
     ELSE LET c    == Head(uwb.rx)
              line == Trim(at.line)
              r    == LineResult(line, at.waitForOK)
          IN  /\ uwb' = [uwb EXCEPT !.rx = Tail(uwb.rx)]
              /\ at' = IF c = LF
                       THEN IF r = "continue"
                            THEN [at EXCEPT !.line = << >>]
                            ELSE [at EXCEPT !.pc = "done", !.line = line,
                                            !.result = (r = "true"),
                                            !.exit = "line", !.end = now]
                       ELSE IF c # CR
                            THEN [at EXCEPT !.line = Append(at.line, c)]
                            ELSE at
  /\ ev' = [NoEv EXCEPT !.op = "sendAT", !.kind = "inner"]
  /\ UNCHANGED <<now, t0, powerVars, detVars, pairVars, radioVars, hnd, env, job,
                 obs, iter>>

\* ------------------------------------------------------------------------
\* SpecSendAT: one call of sendAT() and the radio module's lines
\* ------------------------------------------------------------------------
\* clock values of SpecSendAT
AtMaxMs == 5

\* bytes the serial receive buffer holds in SpecSendAT
MaxRx == 2

AtTimeouts == {2, 3}

\* lines of the radio module: acknowledgement, error, readiness, a line that
\* holds a token after other text, a padded line, an empty line
ModuleLines ==
  { <<"+", "O", "K", CR, LF>>,
    <<"+", "E", "R", "R", CR, LF>>,
    <<"+", "R", "E", "A", "D", "Y", CR, LF>>,
    <<"x", "+", "O", "K", CR, LF>>,
    <<" ", "x", " ", LF>>,
    <<CR, LF>> }

InitSendAT == Asleep(NvsUnpaired)

CallSendAT ==
  /\ \E t \in AtTimeouts, w \in BOOLEAN : SendATBegin(t, w)
  /\ UNCHANGED job

\* a millisecond passes; the inner loop of sendAT() empties the receive
\* buffer within the millisecond in which it began
TickSendAT ==
  /\ now < AtMaxMs
  /\ at.pc # "inner"
  /\ now' = U32Add(now, 1)
  /\ ev' = [NoEv EXCEPT !.op = "tick"]
  /\ UNCHANGED <<t0, powerVars, detVars, pairVars, radioVars, ioVars, obs, iter>>

\* the radio module begins to send a line
ModuleSends ==
  /\ at.pc \in {"outer", "inner"}
  /\ uwb.wire = << >>
  /\ \E l \in ModuleLines : uwb' = [uwb EXCEPT !.wire = l]
  /\ ev' = [NoEv EXCEPT !.op = "module"]
  /\ UNCHANGED <<now, t0, powerVars, detVars, pairVars, radioVars, at, hnd, env,
                 job, obs, iter>>

\* the next byte of the line arrives in the receive buffer
ByteArrives ==
  /\ uwb.wire # << >>
  /\ Len(uwb.rx) < MaxRx
  /\ uwb' = [uwb EXCEPT !.rx = Append(uwb.rx, Head(uwb.wire)),
                        !.wire = Tail(uwb.wire)]
  /\ ev' = [NoEv EXCEPT !.op = "module"]
  /\ UNCHANGED <<now, t0, powerVars, detVars, pairVars, radioVars, at, hnd, env,
                 job, obs, iter>>

NextSendAT ==
  \/ CallSendAT
  \/ SendATOuter
  \/ SendATInner
  \/ TickSendAT
  \/ ModuleSends
  \/ ByteArrives

SpecSendAT == InitSendAT /\ [][NextSendAT]_vars

\* ------------------------------------------------------------------------
\* NetworkCfgCB::handleWrite statement by statement, on the NimBLE host task
\* ------------------------------------------------------------------------
HndEv(k) == [NoEv EXCEPT !.op = "netcfg", !.mode = powerState, !.kind = k]

\* c->getValue() and the search for the two keys
HndBegin(p) ==
  /\ bleStarted
  /\ hnd.pc = "idle"
  /\ hnd' = [pc |-> "network", net |-> p.net, addr |-> p.addr]
  /\ ev' = HndEv("begin")
  /\ obs' = ObsWrite(obs)
  /\ UNCHANGED <<now, t0, powerVars, detVars, pairVars, radioVars, at, uwb,
                 job, env, iter>>

\* strncpy(ANCHOR_UWB_NETWORK, ...)
HndNetwork ==
  /\ hnd.pc = "network"
  /\ ANCHOR_UWB_NETWORK' = ParsedField(ANCHOR_UWB_NETWORK, hnd.net)
  /\ hnd' = [hnd EXCEPT !.pc = "address"]
  /\ ev' = HndEv("network")
  /\ UNCHANGED <<now, t0, powerVars, detVars, isPaired, ANCHOR_UWB_ADDRESS,
                 nvs, radioVars, at, uwb, job, env,
                 obs, iter>>

\* strncpy(ANCHOR_UWB_ADDRESS, ...)
HndAddress ==
  /\ hnd.pc = "address"
  /\ ANCHOR_UWB_ADDRESS' = ParsedField(ANCHOR_UWB_ADDRESS, hnd.addr)
  /\ hnd' = [hnd EXCEPT !.pc = "save"]
  /\ ev' = HndEv("address")
  /\ UNCHANGED <<now, t0, powerVars, detVars, isPaired, ANCHOR_UWB_NETWORK,
                 nvs, radioVars, at, uwb, job, env,
                 obs, iter>>

\* prefs.putString(...); prefs.putBool("paired", true); isPaired = true
HndSave ==
  /\ hnd.pc = "save"
  /\ nvs' = NvsPaired(ANCHOR_UWB_NETWORK, ANCHOR_UWB_ADDRESS)
  /\ isPaired' = TRUE
  /\ hnd' = [hnd EXCEPT !.pc = "configure"]
  /\ ev' = HndEv("save")
  /\ UNCHANGED <<now, t0, powerVars, detVars, ANCHOR_UWB_NETWORK,
                 ANCHOR_UWB_ADDRESS, radioVars, at, uwb, job, env,
                 obs, iter>>

\* configureUWB(); the green flash; delay(500)
HndConfigure ==
  /\ hnd.pc = "configure"
  /\ uwbCfg' = ConfigureUWB(ANCHOR_UWB_NETWORK)
  /\ hnd' = [hnd EXCEPT !.pc = "exit"]
  /\ ev' = HndEv("configure")
  /\ UNCHANGED <<now, t0, powerVars, detVars, pairVars, lastSend,
                 uwb_distance_cm, uwbSynced, txFrame, at, uwb, job, env,
                 obs, iter>>

\* powerState = PowerState::AWAKE_STANDBY; the status notification
HndExit ==
  /\ hnd.pc = "exit"
  /\ powerState' = "AWAKE_STANDBY"
  /\ hnd' = HndIdle
  /\ ev' = HndEv("handshake")
  /\ UNCHANGED <<now, t0, rail3V3On, isCharging, batteryPercent, bleStarted,
                 wakeSources, lastBattUpdate, btnPressStart, btnWasPressed,
                 chgLastBattUpdate, chgBtnPressStart, chgBtnWasPressed, detVars,
                 pairVars, radioVars, at, uwb, job, env,
                 obs, iter>>

\* ------------------------------------------------------------------------
\* SpecConc: the main loop and the BLE handlers as two tasks
\* ------------------------------------------------------------------------
\* length in milliseconds of the window of SpecConc
ConcMaxMs == 500

InitConc == Asleep(NvsPaired(NetA, AddrA))

BootConc == Setup("poweron", FALSE, 0, FALSE, 80, TRUE, BootMs)

LoopConc ==
  /\ U32LT(U32Sub(now, t0), ConcMaxMs)
  /\ \E mm \in PairSamplesMm :
       LoopStep(StepMs, FALSE, FALSE, 80, TRUE, TRUE, mm, 0, 0)

BeginConc ==
  /\ obs.writes < MaxWrites
  /\ HndBegin([net |-> NetB, addr |-> AddrB])

\* the callbacks run one after the other on the host task
EnterPairingConc ==
  obs.writes < MaxWrites /\ hnd.pc = "idle" /\ CtrlEnterPairing

UnpairConc == obs.writes < MaxWrites /\ hnd.pc = "idle" /\ CtrlUnpair

NextConc ==
  \/ BootConc
  \/ LoopConc
  \/ BeginConc
  \/ HndNetwork
  \/ HndAddress
  \/ HndSave
  \/ HndConfigure
  \/ HndExit
  \/ EnterPairingConc
  \/ UnpairConc

SpecConc == InitConc /\ [][NextConc]_vars

\* ------------------------------------------------------------------------
\* uwbSync() and configureUWB(), statement by statement, over sendAT()
\* ------------------------------------------------------------------------
SYNC_ATTEMPTS == 5

SYNC_SETTLE_MS == 500

SYNC_RETRY_MS == 300

SYNC_TIMEOUT_MS == 500

AT_TIMEOUT_MS == 2000

JobEv(k) == [NoEv EXCEPT !.op = "job", !.mode = powerState, !.kind = k]

\* the command and what sendAT() returned for it, added to the record
Issued(j, c) == [j EXCEPT !.cmds = Append(j.cmds, c), !.lines = 0]

Returned(j, a) ==
  [j EXCEPT !.results = Append(j.results, a.result),
            !.exits = Append(j.exits, a.exit)]

\* a loop of uwbSync() that makes one attempt more
SyncMore_OneMore(i) == i < SYNC_ATTEMPTS + 1

\* for (int i = 0; i < 5; ++i)
SyncMore(i) == i < SYNC_ATTEMPTS

\* a uwbSync() that goes on probing after an acknowledged probe
SyncReturns_Never(ok) == FALSE

\* if (sendAT("AT", 500)) return true
SyncReturns(ok) == ok

\* uwbSync() is called: delay(500) begins
SyncBegin ==
  /\ job.fn = "none"
  /\ at.pc = "idle"
  /\ job' = [JobIdle EXCEPT !.fn = "uwbSync", !.pc = "settle", !.t = now]
  /\ ev' = JobEv("begin")
  /\ UNCHANGED <<now, t0, powerVars, detVars, pairVars, radioVars, at, uwb,
                 hnd, env, obs, iter>>

\* delay(500) is over; while (UWB.available()) UWB.read(); i = 0
SyncSettle ==
  /\ job.fn = "uwbSync" /\ job.pc = "settle"
  /\ U32GE(U32Sub(now, job.t), SYNC_SETTLE_MS)
  /\ uwb' = [uwb EXCEPT !.rx = << >>]
  /\ job' = [job EXCEPT !.pc = "probe", !.i = 0]
  /\ ev' = JobEv("settle")
  /\ UNCHANGED <<now, t0, powerVars, detVars, pairVars, radioVars, at, hnd, env,
                 obs, iter>>

\* the loop test, then sendAT("AT", 500) is called, or return false
SyncProbe ==
  /\ job.fn = "uwbSync" /\ job.pc = "probe"
  /\ IF SyncMore(job.i)
     THEN /\ SendATBegin(SYNC_TIMEOUT_MS, TRUE)
          /\ job' = [Issued(job, Cmd("AT", EmptyStr)) EXCEPT !.pc = "wait"]
     ELSE /\ job' = [job EXCEPT !.pc = "done", !.ret = "false"]
          /\ ev' = JobEv("absent")
          /\ UNCHANGED <<now, t0, powerVars, detVars, pairVars, radioVars, at,
                         uwb, hnd, env, obs, iter>>

\* sendAT() has returned: return true, or delay(300) begins
SyncResult ==
  /\ job.fn = "uwbSync" /\ job.pc = "wait"
  /\ at.pc = "done"
  /\ job' = IF SyncReturns(at.result)
            THEN [job EXCEPT !.results = Append(job.results, at.result),
                             !.pc = "done", !.ret = "true"]
            ELSE [job EXCEPT !.results = Append(job.results, at.result),
                             !.pc = "delay", !.t = now]
  /\ at' = AtIdle
  /\ ev' = JobEv(IF at.result THEN "acknowledged" ELSE "failed")
  /\ UNCHANGED <<now, t0, powerVars, detVars, pairVars, radioVars, uwb, hnd, env,
                 obs, iter>>

\* delay(300) is over; ++i
SyncDelay ==
  /\ job.fn = "uwbSync" /\ job.pc = "delay"
  /\ U32GE(U32Sub(now, job.t), SYNC_RETRY_MS)
  /\ job' = [job EXCEPT !.pc = "probe", !.i = job.i + 1]
  /\ ev' = JobEv("retry")
  /\ UNCHANGED <<now, t0, powerVars, detVars, pairVars, radioVars, at, uwb,
                 hnd, env, obs, iter>>

\* a configureUWB() that gives up at the first command that fails
CfgNext_StopOnFail(i, ok) == IF ok THEN i + 1 ELSE 6

\* a configureUWB() that repeats a command that failed
CfgNext_Retry(i, ok) == IF ok THEN i + 1 ELSE i

\* the command that follows command i, whatever sendAT() returned for it
CfgNext(i, ok) == i + 1

\* configureUWB() is called; while (UWB.available()) UWB.read()
CfgBegin ==
  /\ job.fn = "none"
  /\ at.pc = "idle"
  /\ powerState # "DEEP_SLEEP"
  /\ job' = [JobIdle EXCEPT !.fn = "configureUWB", !.pc = "cmd", !.i = 1]
  /\ uwb' = [uwb EXCEPT !.rx = << >>]
  /\ ev' = JobEv("begin")
  /\ UNCHANGED <<now, t0, powerVars, detVars, pairVars, radioVars, at, hnd, env,
                 obs, iter>>

\* the next sendAT(...) of configureUWB() is called, or the function returns
CfgCommand ==
  /\ job.fn = "configureUWB" /\ job.pc = "cmd"
  /\ LET seq == ConfigureUWB(ANCHOR_UWB_NETWORK)
     IN  IF job.i >= 1 /\ job.i <= Len(seq)
         THEN /\ SendATBegin(AT_TIMEOUT_MS, TRUE)
              /\ job' = [Issued(job, seq[job.i]) EXCEPT !.pc = "wait"]
         ELSE /\ job' = [job EXCEPT !.pc = "done"]
              /\ ev' = JobEv("complete")
              /\ UNCHANGED <<now, t0, powerVars, detVars, pairVars, radioVars,
                             at, uwb, hnd, env, obs, iter>>

\* sendAT() has returned; its result is not looked at
CfgResult ==
  /\ job.fn = "configureUWB" /\ job.pc = "wait"
  /\ at.pc = "done"
  /\ job' = [Returned(job, at) EXCEPT
               !.pc = "cmd", !.i = CfgNext(job.i, at.result)]
  /\ at' = AtIdle
  /\ ev' = JobEv(IF at.exit = "timeout" THEN "timeout"
                 ELSE IF at.result THEN "acknowledged" ELSE "failed")
  /\ UNCHANGED <<now, t0, powerVars, detVars, pairVars, radioVars, uwb, hnd, env,
                 obs, iter>>

\* the main task cannot go on before the clock has advanced: it is in a
\* delay() that is not over, or in the outer loop of a sendAT() that has not
\* timed out (the statements themselves take no time at the scale of dt)
JobWaits ==
  \/ job.pc = "settle" /\ U32LT(U32Sub(now, job.t), SYNC_SETTLE_MS)
  \/ job.pc = "delay" /\ U32LT(U32Sub(now, job.t), SYNC_RETRY_MS)
  \/ /\ job.pc = "wait" /\ at.pc = "outer"
     /\ U32LT(U32Sub(now, at.start), at.timeoutMs)

\* time passes while uwbSync() or configureUWB() runs
JobTick(dt, maxMs) ==
  /\ job.fn # "none"
  /\ JobWaits
  /\ U32LT(U32Sub(now, t0), maxMs)
  /\ now' = U32Add(now, dt)
  /\ ev' = [NoEv EXCEPT !.op = "tick"]
  /\ UNCHANGED <<t0, powerVars, detVars, pairVars, radioVars, ioVars, obs, iter>>

\* the radio module begins to send a line, at most maxLines for a command
JobModuleSends(lines, maxLines) ==
  /\ at.pc \in {"outer", "inner"}
  /\ uwb.wire = << >>
  /\ job.lines < maxLines
  /\ \E l \in lines : uwb' = [uwb EXCEPT !.wire = l]
  /\ job' = [job EXCEPT !.lines = job.lines + 1]
  /\ ev' = [NoEv EXCEPT !.op = "module"]
  /\ UNCHANGED <<now, t0, powerVars, detVars, pairVars, radioVars, at, hnd, env,
                 obs, iter>>

\* ------------------------------------------------------------------------
\* SpecSync: setup() calls uwbSync(); the radio module answers or not
\* ------------------------------------------------------------------------
\* time between two readings of the clock in SpecSync
SyncTickMs == 100

\* length in milliseconds of the window of SpecSync
SyncMaxMs == 5000

\* lines the radio module sends for one probe in SpecSync
SyncMaxLines == 1

\* the radio module answers a probe with an acknowledgement or an error, or
\* does not answer
SyncLines ==
  { <<"+", "O", "K", CR, LF>>,
    <<"+", "E", "R", "R", CR, LF>> }

InitSync == Asleep(NvsUnpaired)

TickSync == JobTick(SyncTickMs, SyncMaxMs)

ModuleSync == JobModuleSends(SyncLines, SyncMaxLines)

\* uwbSync() has returned and setup() goes on with its result
BootSync ==
  /\ job.fn = "uwbSync" /\ job.pc = "done"
  /\ Setup("poweron", FALSE, 0, FALSE, 80, job.ret = "true", now)

\* the statements of the main task while uwbSync() runs
StepSync ==
  \/ SyncSettle
  \/ SyncProbe
  \/ SyncResult
  \/ SyncDelay
  \/ SendATOuter
  \/ SendATInner

NextSync ==
  \/ SyncBegin
  \/ StepSync
  \/ TickSync
  \/ ModuleSync
  \/ ByteArrives
  \/ BootSync

SpecSync == InitSync /\ [][NextSync]_vars

\* the main task goes on executing, and the millisecond clock goes on
\* counting whatever the task does
SpecSyncLive == SpecSync /\ WF_vars(StepSync) /\ SF_vars(TickSync)

\* ------------------------------------------------------------------------
\* SpecConfig: a run of configureUWB() on a booted device
\* ------------------------------------------------------------------------
\* time between two readings of the clock in SpecConfig
CfgTickMs == 1000

\* length in milliseconds of the window of SpecConfig
CfgMaxMs == 12000

\* lines the radio module sends for one command in SpecConfig
CfgMaxLines == 1

InitConfig == Asleep(NvsUnpaired) \/ Asleep(NvsPaired(NetA, AddrA))

BootConfig == Setup("poweron", FALSE, 0, FALSE, 80, TRUE, BootMs)

TickConfig == JobTick(CfgTickMs, CfgMaxMs)

ModuleConfig == JobModuleSends(SyncLines, CfgMaxLines)

\* configureUWB() returns to its caller
CfgReturn ==
  /\ job.fn = "configureUWB" /\ job.pc = "done"
  /\ job' = [job EXCEPT !.pc = "returned"]
  /\ uwbCfg' = job.cmds
  /\ ev' = JobEv("return")
  /\ UNCHANGED <<now, t0, powerVars, detVars, pairVars, lastSend,
                 uwb_distance_cm, uwbSynced, txFrame, at, uwb, hnd, env, obs, iter>>

NextConfig ==
  \/ BootConfig
  \/ CfgBegin
  \/ CfgCommand
  \/ CfgResult
  \/ CfgReturn
  \/ SendATOuter
  \/ SendATInner
  \/ TickConfig
  \/ ModuleConfig
  \/ ByteArrives

SpecConfig == InitConfig /\ [][NextConfig]_vars

\* ------------------------------------------------------------------------
\* The push button, pressed and released between two loop iterations
\* ------------------------------------------------------------------------
ButtonEv(k) == [NoEv EXCEPT !.op = "button", !.mode = powerState, !.kind = k]

\* what the transition table promises for a press that began in mode m and
\* lasted d milliseconds
Owed(m, d, before) ==
  IF m \in {"AWAKE_STANDBY", "AWAKE_RUNNING"}
  THEN IF U32LT(d, 5000) THEN "sleep" ELSE "ota"
  ELSE before

\* the button goes down just after the loop iteration that began at now, one
\* or more iterations after it went up
ButtonPress ==
  /\ powerState # "DEEP_SLEEP"
  /\ ~env.btnLow
  /\ now # env.btnUp
  /\ env' = [env EXCEPT !.btnLow = TRUE, !.btnSince = now,
                        !.btnMode = powerState]
  /\ ev' = ButtonEv("press")
  /\ UNCHANGED <<now, t0, powerVars, detVars, pairVars, radioVars, at, uwb,
                 hnd, job, obs, iter>>

\* the button goes up just after the loop iteration that began at now, one
\* or more iterations after it went down
ButtonRelease ==
  /\ powerState # "DEEP_SLEEP"
  /\ env.btnLow
  /\ now # env.btnSince
  /\ env' = [env EXCEPT !.btnLow = FALSE, !.btnUp = now]
  /\ obs' = [obs EXCEPT !.owed = Owed(env.btnMode, U32Sub(now, env.btnSince),
                                      obs.owed)]
  /\ ev' = ButtonEv("release")
  /\ UNCHANGED <<now, t0, powerVars, detVars, pairVars, radioVars, at, uwb,
                 hnd, job, iter>>

\* ------------------------------------------------------------------------
\* SpecButton: button presses on a device in standby, running or pairing mode
\* ------------------------------------------------------------------------
InitButton == Asleep(NvsUnpaired)

BootButton ==
  /\ ~env.btnLow
  /\ Setup("poweron", FALSE, 0, FALSE, 80, TRUE, BootMs)

LoopButton ==
  /\ U32LT(U32Sub(now, t0), PowerMaxMs)
  /\ \E mm \in PairSamplesMm :
       LoopStep(PowerStepMs, env.btnLow, FALSE, 80, TRUE, TRUE, mm, 0, 0)

NetCfgButton ==
  /\ obs.writes < MaxWrites
  /\ NetworkCfgWrite([net |-> NetA, addr |-> AddrA])

EnterPairingButton == obs.writes < MaxWrites /\ CtrlEnterPairing

NextButton ==
  \/ BootButton
  \/ LoopButton
  \/ ButtonPress
  \/ ButtonRelease
  \/ NetCfgButton
  \/ EnterPairingButton

SpecButton == InitButton /\ [][NextButton]_vars

\* ------------------------------------------------------------------------
\* SpecRace: a BLE write handled while a loop iteration is in progress
\* ------------------------------------------------------------------------
\* loop(): now = millis(); the tests of powerState for the OTA, charging and
\* pairing branches have failed and the iteration is in the awake branch
IterBegin(dt) ==
  /\ ~iter.busy
  /\ powerState \in {"AWAKE_STANDBY", "AWAKE_RUNNING"}
  /\ iter' = [busy |-> TRUE, n |-> U32Add(now, dt), at |-> "branch",
              paired |-> FALSE]
  /\ ev' = [NoEv EXCEPT !.op = "iter", !.mode = powerState]
  /\ UNCHANGED <<now, t0, powerVars, detVars, pairVars, radioVars, ioVars,
                 obs>>

\* an iteration that has come to pollUWB() and evaluated isPaired in the test
\* of its send branch; what it did before (battery, button, sensor) touches
\* nothing a handler reads or writes and is applied with the rest
IterPollTest(dt) ==
  /\ ~iter.busy
  /\ powerState \in {"AWAKE_STANDBY", "AWAKE_RUNNING"}
  /\ iter' = [busy |-> TRUE, n |-> U32Add(now, dt), at |-> "poll",
              paired |-> isPaired]
  /\ ev' = [NoEv EXCEPT !.op = "iter", !.mode = powerState]
  /\ UNCHANGED <<now, t0, powerVars, detVars, pairVars, radioVars, ioVars,
                 obs>>

\* the rest of the iteration, whatever powerState and the pairing record have
\* become in between
IterBody(btn, chg, batt, ready, dist_mm, rx, dp) ==
  /\ iter.busy
  /\ AwakeRun(IF iter.at = "poll" THEN iter.paired ELSE isPaired,
              iter.n, btn, chg, batt, ready, dist_mm, rx, dp)

InitRace == Asleep(NvsUnpaired)

BootRace == Setup("poweron", FALSE, 0, FALSE, 80, TRUE, BootMs)

\* an iteration during which no BLE write is handled
LoopRace ==
  /\ ~iter.busy
  /\ U32LT(U32Sub(now, t0), ConcMaxMs)
  /\ \E mm \in PairSamplesMm :
       LoopStep(StepMs, FALSE, FALSE, 80, TRUE, TRUE, mm, 0, 0)

BeginRace == U32LT(U32Sub(now, t0), ConcMaxMs) /\ IterBegin(StepMs)

PollTestRace == U32LT(U32Sub(now, t0), ConcMaxMs) /\ IterPollTest(StepMs)

BodyRace ==
  \E mm \in PairSamplesMm : IterBody(FALSE, FALSE, 80, TRUE, mm, 0, 0)

EnterPairingRace == obs.writes < MaxWrites /\ CtrlEnterPairing

UnpairRace == obs.writes < MaxWrites /\ CtrlUnpair

NetCfgRace ==
  /\ obs.writes < MaxWrites
  /\ NetworkCfgWrite([net |-> NetA, addr |-> AddrA])

NextRace ==
  \/ BootRace
  \/ LoopRace
  \/ BeginRace
  \/ PollTestRace
  \/ BodyRace
  \/ EnterPairingRace
  \/ UnpairRace
  \/ NetCfgRace

SpecRace == InitRace /\ [][NextRace]_vars

\* ------------------------------------------------------------------------
\* SpecClamp: the detector fed with readings at and beyond the clamp
\* ------------------------------------------------------------------------
\* sensor readings in millimetres: a passing runner, exactly 183 cm, 184 cm,
\* and the largest value the sensor's 16-bit result register can hold
ClampSamplesMm == {1600, 1830, 1840, 65535}

InitClamp == Asleep(NvsUnpaired)

BootClamp == Setup("poweron", FALSE, 0, FALSE, 80, TRUE, BootMs)

LoopClamp ==
  /\ InWindow
  /\ \E mm \in ClampSamplesMm :
       LoopStep(StepMs, FALSE, FALSE, 80, TRUE, TRUE, mm, 0, 0)

NextClamp == BootClamp \/ LoopClamp

SpecClamp == InitClamp /\ [][NextClamp]_vars

\* ------------------------------------------------------------------------
\* SpecScenario: the sample stream of the documented example
\* ------------------------------------------------------------------------
\* time between two samples of the example
ScenarioPeriodMs == 20

\* the readings of the example in millimetres, from t = 0
ScenarioHead == <<1830, 1750, 1650, 1600, 1700, 1800>>

\* the readings the example leaves open ("..."): a persisting drop, clear ones
ScenarioFill == {1700, 1800, 1830}

\* the two last readings of the example, at t = 560 and t = 580
ScenarioTail == <<1820, 1830>>

\* clear readings after the end of the example
ScenarioAfter == {1820, 1830}

\* the time of the sample a loop iteration at clock n processes
ScenarioT(n) == U32Sub(n, t0) - ScenarioPeriodMs

\* the readings the sensor can deliver at time t of the example
ScenarioSamples(t) ==
  LET i == t \div ScenarioPeriodMs + 1
  IN  IF i <= Len(ScenarioHead) THEN {ScenarioHead[i]}
      ELSE IF t < 560 THEN ScenarioFill
      ELSE IF t = 560 THEN {ScenarioTail[1]}
      ELSE IF t = 580 THEN {ScenarioTail[2]}
      ELSE ScenarioAfter

\* the last sample time of the modelled run
ScenarioEndMs == 640

InitScenario == Asleep(NvsUnpaired)

BootScenario == Setup("poweron", FALSE, 0, FALSE, 80, TRUE, BootMs)

LoopScenario ==
  /\ ScenarioT(now) < ScenarioEndMs
  /\ \E mm \in ScenarioSamples(ScenarioT(now) + ScenarioPeriodMs) :
       LoopStep(ScenarioPeriodMs, FALSE, FALSE, 80, TRUE, TRUE, mm, 0, 0)

NextScenario == BootScenario \/ LoopScenario

SpecScenario == InitScenario /\ [][NextScenario]_vars

\* ------------------------------------------------------------------------
\* SpecAbsorb: long presses and BLE writes, the handler statement by statement
\* ------------------------------------------------------------------------
\* time from one loop iteration to the next in SpecAbsorb
AbsorbStepMs == 2500

\* length in milliseconds of the window of SpecAbsorb
AbsorbMaxMs == 12500

InitAbsorb == Asleep(NvsUnpaired)

BootAbsorb == Setup("poweron", FALSE, 0, FALSE, 80, TRUE, BootMs)

LoopAbsorb ==
  /\ U32LT(U32Sub(now, t0), AbsorbMaxMs)
  /\ \E btn \in BOOLEAN, chg \in BOOLEAN, mm \in PairSamplesMm :
       LoopStep(AbsorbStepMs, btn, chg, 80, TRUE, TRUE, mm, 0, 0)

BeginAbsorb ==
  /\ obs.writes < MaxWrites
  /\ HndBegin([net |-> NetA, addr |-> AddrA])

\* the callbacks run one after the other on the host task
EnterPairingAbsorb ==
  obs.writes < MaxWrites /\ hnd.pc = "idle" /\ CtrlEnterPairing

NextAbsorb ==
  \/ BootAbsorb
  \/ LoopAbsorb
  \/ BeginAbsorb
  \/ HndNetwork
  \/ HndAddress
  \/ HndSave
  \/ HndConfigure
  \/ HndExit
  \/ EnterPairingAbsorb

SpecAbsorb == InitAbsorb /\ [][NextAbsorb]_vars

\* ------------------------------------------------------------------------
\* The store calls of the two handlers, one call per step
\* ------------------------------------------------------------------------
\* prefs.putString(key, val), prefs.putBool(key, val): one key is written
\* and committed
StorePut(store, key, val) == [store EXCEPT ![key] = val]

\* prefs.remove(key)
StoreRemove(store, key) == [store EXCEPT ![key] = NoKey]

\* NetworkCfgCB::handleWrite up to prefs.begin(): both fields are parsed and
\* copied into the buffers
SaveBegin(p) ==
  /\ bleStarted
  /\ hnd.pc = "idle"
  /\ ANCHOR_UWB_NETWORK' = ParsedField(ANCHOR_UWB_NETWORK, p.net)
  /\ ANCHOR_UWB_ADDRESS' = ParsedField(ANCHOR_UWB_ADDRESS, p.addr)
  /\ hnd' = [hnd EXCEPT !.pc = "put_network"]
  /\ ev' = HndEv("begin")
  /\ obs' = ObsWrite(obs)
  /\ UNCHANGED <<now, t0, powerVars, detVars, isPaired, nvs, radioVars, at,
                 uwb, job, env, iter>>

\* the three store calls of the handler, then isPaired = true,
\* configureUWB() and powerState = AWAKE_STANDBY
SaveStep ==
  /\ hnd.pc \in {"put_network", "put_address", "put_paired"}
  /\ nvs' = CASE hnd.pc = "put_network" ->
                  StorePut(nvs, "uwb_network", ANCHOR_UWB_NETWORK)
             [] hnd.pc = "put_address" ->
                  StorePut(nvs, "anchor_addr", ANCHOR_UWB_ADDRESS)
             [] OTHER -> StorePut(nvs, "paired", TRUE)
  /\ hnd' = IF hnd.pc = "put_network" THEN [hnd EXCEPT !.pc = "put_address"]
            ELSE IF hnd.pc = "put_address" THEN [hnd EXCEPT !.pc = "put_paired"]
            ELSE HndIdle
  /\ isPaired' = (hnd.pc = "put_paired" \/ isPaired)
  /\ uwbCfg' = IF hnd.pc = "put_paired" THEN ConfigureUWB(ANCHOR_UWB_NETWORK)
               ELSE uwbCfg
  /\ powerState' = IF hnd.pc = "put_paired" THEN "AWAKE_STANDBY" ELSE powerState
  /\ ev' = HndEv(IF hnd.pc = "put_paired" THEN "handshake" ELSE "store")
  /\ UNCHANGED <<now, t0, rail3V3On, isCharging, batteryPercent, bleStarted,
                 wakeSources, lastBattUpdate, btnPressStart, btnWasPressed,
                 chgLastBattUpdate, chgBtnPressStart, chgBtnWasPressed, detVars,
                 ANCHOR_UWB_NETWORK, ANCHOR_UWB_ADDRESS, lastSend,
                 uwb_distance_cm, uwbSynced, txFrame, at, uwb, job, env, obs,
                 iter>>

\* CtrlCB::handleWrite, "unpair":true, up to prefs.begin(): the buffers are
\* cleared, isPaired = false
UnpairBegin ==
  /\ bleStarted
  /\ hnd.pc = "idle"
  /\ ANCHOR_UWB_NETWORK' = EmptyStr
  /\ ANCHOR_UWB_ADDRESS' = EmptyStr
  /\ isPaired' = FALSE
  /\ hnd' = [hnd EXCEPT !.pc = "remove_network"]
  /\ ev' = HandlerEv("ctrl", "unpair_begin")
  /\ obs' = ObsWrite(obs)
  /\ UNCHANGED <<now, t0, powerVars, detVars, nvs, radioVars, at, uwb, job,
                 env, iter>>

\* the three store calls of the unpair
UnpairStep ==
  /\ hnd.pc \in {"remove_network", "remove_address", "put_unpaired"}
  /\ nvs' = CASE hnd.pc = "remove_network" -> StoreRemove(nvs, "uwb_network")
             [] hnd.pc = "remove_address" -> StoreRemove(nvs, "anchor_addr")
             [] OTHER -> StorePut(nvs, "paired", FALSE)
  /\ hnd' = IF hnd.pc = "remove_network"
            THEN [hnd EXCEPT !.pc = "remove_address"]
            ELSE IF hnd.pc = "remove_address"
            THEN [hnd EXCEPT !.pc = "put_unpaired"]
            ELSE HndIdle
  /\ ev' = HandlerEv("ctrl", IF hnd.pc = "put_unpaired" THEN "unpair"
                             ELSE "store")
  /\ UNCHANGED <<now, t0, powerVars, detVars, isPaired, ANCHOR_UWB_NETWORK,
                 ANCHOR_UWB_ADDRESS, radioVars, at, uwb, job, env, obs, iter>>

\* ------------------------------------------------------------------------
\* SpecTorn: resets while a handler is between two store calls
\* ------------------------------------------------------------------------
\* the two complete pairing writes of SpecTorn
TornPayloads == {[net |-> NetA, addr |-> AddrA], [net |-> NetB, addr |-> AddrB]}

InitTorn == Asleep(NvsUnpaired)

BootTorn == Setup("poweron", FALSE, 0, FALSE, 80, TRUE, BootMs)

\* iterations with the button pressed and released: a short press ends in
\* enterDeepSleep()
LoopTorn ==
  /\ U32LT(U32Sub(now, t0), PairMaxMs)
  /\ \E btn \in BOOLEAN :
       LoopStep(StepMs, btn, FALSE, 80, TRUE, TRUE, 2000, 0, 0)

SaveBeginTorn == obs.writes < MaxWrites /\ \E p \in TornPayloads : SaveBegin(p)

UnpairBeginTorn == obs.writes < MaxWrites /\ UnpairBegin

NextTorn ==
  \/ BootTorn
  \/ LoopTorn
  \/ SaveBeginTorn
  \/ SaveStep
  \/ UnpairBeginTorn
  \/ UnpairStep
  \/ PowerCycle

SpecTorn == InitTorn /\ [][NextTorn]_vars

\* ------------------------------------------------------------------------
\* SpecLate: uwbSync() and a radio module that answers late
\* ------------------------------------------------------------------------
\* the radio module answers a command it has not answered yet, the latest or
\* an earlier one, at any time after the command was written
ModuleAnswers(lines) ==
  /\ job.fn # "none" /\ job.pc \in {"wait", "delay", "probe"}
  /\ uwb.wire = << >>
  /\ LET last == IF job.ans = << >> THEN 0 ELSE job.ans[Len(job.ans)]
     IN  \E c \in (last + 1)..Len(job.cmds) :
           job' = [job EXCEPT !.ans = Append(@, c)]
  /\ \E l \in lines : uwb' = [uwb EXCEPT !.wire = l]
  /\ ev' = [NoEv EXCEPT !.op = "module"]
  /\ UNCHANGED <<now, t0, powerVars, detVars, pairVars, radioVars, at, hnd, env,
                 obs, iter>>

\* length in milliseconds of the window of SpecLate
LateMaxMs == 2000

InitLate == Asleep(NvsUnpaired)

TickLate == JobTick(SyncTickMs, LateMaxMs)

ModuleLate == ModuleAnswers(SyncLines)

BootLate ==
  /\ job.fn = "uwbSync" /\ job.pc = "done"
  /\ Setup("poweron", FALSE, 0, FALSE, 80, job.ret = "true", now)

NextLate ==
  \/ SyncBegin
  \/ SyncSettle
  \/ SyncProbe
  \/ SyncResult
  \/ SyncDelay
  \/ SendATOuter
  \/ SendATInner
  \/ TickLate
  \/ ModuleLate
  \/ ByteArrives
  \/ BootLate

SpecLate == InitLate /\ [][NextLate]_vars

\* ------------------------------------------------------------------------
\* SpecFlood: the radio module sends characters without a line end, first
\* to a call of sendAT(), then to pollUWB()
\* ------------------------------------------------------------------------
\* characters the module sends at a time in SpecFlood
FloodChunk == 60

\* characters a call of sendAT() or pollUWB() may hold, unread or in its
\* line, when the module sends more
FloodMaxBytes == 130

\* time between two readings of the clock by sendAT() in SpecFlood
FloodTickMs == 2000

\* length in milliseconds of the loop window of SpecFlood
FloodMaxMs == 200

\* a run of characters without a line end, or an acknowledgement
FloodLines == { [i \in 1..FloodChunk |-> "x"], <<"+", "O", "K", CR, LF>> }

InitFlood == Asleep(NvsUnpaired)

CallFlood ==
  /\ powerState = "DEEP_SLEEP"
  /\ SendATBegin(AT_TIMEOUT_MS, TRUE)
  /\ UNCHANGED job

TickFlood ==
  /\ at.pc = "outer"
  /\ U32LT(U32Sub(now, at.start), at.timeoutMs)
  /\ now' = U32Add(now, FloodTickMs)
  /\ ev' = [NoEv EXCEPT !.op = "tick"]
  /\ UNCHANGED <<t0, powerVars, detVars, pairVars, radioVars, ioVars, obs, iter>>

FloodSends ==
  /\ uwb.wire = << >>
  /\ \/ at.pc \in {"outer", "inner"}
        /\ Len(at.line) + Len(uwb.rx) < FloodMaxBytes
     \/ powerState \in {"AWAKE_STANDBY", "AWAKE_RUNNING"}
        /\ Len(uwb.line) + Len(uwb.rx) < FloodMaxBytes
  /\ \E l \in FloodLines : uwb' = [uwb EXCEPT !.wire = l]
  /\ ev' = [NoEv EXCEPT !.op = "module"]
  /\ UNCHANGED <<now, t0, powerVars, detVars, pairVars, radioVars, at, hnd, env,
                 job, obs, iter>>

BootFlood ==
  /\ at.pc = "done"
  /\ Setup("poweron", FALSE, 0, FALSE, 80, at.result, U32Add(now, BootMs))

LoopFlood ==
  /\ powerState \in {"AWAKE_STANDBY", "AWAKE_RUNNING"}
  /\ U32LT(U32Sub(now, t0), FloodMaxMs)
  /\ AwakeBytes(U32Add(now, StepMs), FALSE, FALSE, 80, TRUE, 2000, 0)

NextFlood ==
  \/ CallFlood
  \/ SendATOuter
  \/ SendATInner
  \/ TickFlood
  \/ FloodSends
  \/ LineArrives
  \/ BootFlood
  \/ LoopFlood

SpecFlood == InitFlood /\ [][NextFlood]_vars

C5_OneEventPerArmCycle == obs.cycleEvents <= 1

\* C5 witness: the detector is disarmed after its event and a further
\* qualifying drop has just been processed without a second event.
C5_Witness ==
  /\ ~startArmed /\ obs.cycleEvents = 1
  /\ ev.sample = "D" /\ ~ev.fired /\ obs.shape = "other"

\* C6: a re-arm happens only on a clear sample after the hold window that
\* directly follows another such sample, no qualifying drop in between.
C6_HoldWindowSuppression ==
  ev.rearmed => (ev.sample = "Cout" /\ obs.clearRun >= 2)

\* ------------------------------------------------------------------------
\* Properties of telemetry and pairing
\* ------------------------------------------------------------------------
\* the last step was a loop iteration that reached pollUWB()
Polled == ev.op = "loop" /\ ev.polled

\* StartEvents not yet reported when the frame of the last iteration was
\* assembled (the iteration's own event comes after the frame)
PendingAtFrame == obs.unreported - (IF ev.fired THEN 1 ELSE 0)

\* C2: every StartEvent is reported exactly once: no StartEvent fires while
\* an earlier one is still unreported (the single pending age would be
\* lost), no frame is sent with the sentinel -1 while a StartEvent is
\* unreported, and no frame carries an age when none is unreported
C2_EveryEventReportedOnce ==
  /\ obs.unreported <= 1
  /\ ~obs.dupReport
  /\ (Polled /\ txFrame.sent /\ txFrame.startAge = -1) => PendingAtFrame = 0

\* C3: the first frame assembled after a StartEvent has an age of 0 or more,
\* every later frame with no further event has the sentinel -1, and a frame
\* that carries an age leaves no timestamp pending
C3_TelemetryConsumption ==
  (Polled /\ txFrame.sent) =>
    /\ obs.sinceEvent = 1 => txFrame.startAge >= 0
    /\ obs.sinceEvent = 2 => txFrame.startAge = -1
    /\ (txFrame.startAge >= 0 /\ ~ev.fired) => startTimestamp = -1

\* C7: after a network-config write, whichever fields the payload holds, the
\* device is paired in memory and in the store, the store holds the
\* identifiers that are in memory, the radio was configured with the network
\* identifier in memory, and the mode is standby
C7_NetworkConfigWrite ==
  ev.op = "netcfg" =>
    /\ isPaired /\ nvs.paired
    /\ nvs.uwb_network = ANCHOR_UWB_NETWORK
    /\ nvs.anchor_addr = ANCHOR_UWB_ADDRESS
    /\ Len(uwbCfg) = 5
    /\ uwbCfg[3] = [cmd |-> "AT+NETWORKID=", arg |-> ANCHOR_UWB_NETWORK]
    /\ powerState = "AWAKE_STANDBY"

\* a write in pairing mode that holds an over-long network identifier and no
\* address, on a device that had no address
C7_Witness ==
  /\ ev.op = "netcfg" /\ ev.mode = "PAIRING_MODE"
  /\ Len(ANCHOR_UWB_NETWORK) = 15
  /\ ANCHOR_UWB_ADDRESS = EmptyStr
  /\ isPaired /\ nvs.paired

\* C9 as written: in every loop iteration a frame is transmitted exactly
\* when the device is paired and 300 ms have passed since the latest
\* transmission
C9_CadenceEveryIteration ==
  ev.op = "loop" => (txFrame.sent <=> ev.due)

\* C9: in every loop iteration that reaches the telemetry step a frame is
\* transmitted exactly when the device is paired and 300 ms or more have
\* passed since the latest transmission, synced radio or not; no frame is
\* transmitted in any other iteration or while unpaired
C9_Cadence ==
  ev.op = "loop" =>
    /\ ev.polled => (txFrame.sent <=> ev.due)
    /\ ~ev.polled => ~txFrame.sent
    /\ txFrame.sent => (isPaired /\ lastSend = now)

\* a frame transmitted by a paired device whose radio module did not sync
C9_Witness ==
  Polled /\ txFrame.sent /\ ev.due /\ ~uwbSynced /\ isPaired

\* ------------------------------------------------------------------------
\* Properties of the power modes
\* ------------------------------------------------------------------------
Awake == {"AWAKE_STANDBY", "AWAKE_RUNNING"}

\* the transition table of the specification: to may follow mode m on
\* event k, c the charger being connected; a wake from deep sleep leads to
\* standby or charging, a pair that the table does not list leaves the mode
\* as it is
TableOfSpec(m, k, c, to) ==
  CASE m = "DEEP_SLEEP" /\ k \in {"wake_button", "wake_charger",
                                  "wake_released", "power_on"}
         -> to \in {"AWAKE_STANDBY", "CHARGING"}
    [] m \in Awake /\ k = "short_press"        -> to = "DEEP_SLEEP"
    [] m \in Awake /\ k = "long_press"         -> to = "OTA_MODE"
    [] m = "AWAKE_STANDBY" /\ k = "start_event" -> to = "AWAKE_RUNNING"
    [] m = "AWAKE_RUNNING" /\ k = "rearm"      -> to = "AWAKE_STANDBY"
    [] m = "CHARGING" /\ k = "charger_off"     -> to = "DEEP_SLEEP"
    [] m = "CHARGING" /\ k = "short_press" /\ ~c -> to = "AWAKE_STANDBY"
    [] m \in Awake \cup {"PAIRING_MODE"} /\ k = "enter_pairing"
         -> to = "PAIRING_MODE"
    [] m = "PAIRING_MODE" /\ k = "handshake"   -> to = "AWAKE_STANDBY"
    [] OTHER -> to = m

\* the table with the rows the program adds or changes: the boot cases, the
\* button in charging mode, and a network-config write in any mode
TableOfProgram(m, k, c) ==
  CASE m = "DEEP_SLEEP" /\ k = "boot_long_press" -> "OTA_MODE"
    [] m = "DEEP_SLEEP" /\ k = "wake_button"   -> "AWAKE_STANDBY"
    [] m = "DEEP_SLEEP" /\ k = "boot_press"    -> "DEEP_SLEEP"
    [] m = "DEEP_SLEEP" /\ k = "wake_charger"  -> "CHARGING"
    [] m = "DEEP_SLEEP" /\ k \in {"wake_released", "power_on"}
         -> (IF c THEN "CHARGING" ELSE "AWAKE_STANDBY")
    [] m \in Awake /\ k = "short_press"        -> "DEEP_SLEEP"
    [] m \in Awake /\ k = "long_press"         -> "OTA_MODE"
    [] m = "AWAKE_STANDBY" /\ k = "start_event" -> "AWAKE_RUNNING"
    [] m = "AWAKE_RUNNING" /\ k = "rearm"      -> "AWAKE_STANDBY"
    [] m = "CHARGING" /\ k = "charger_off"     -> "DEEP_SLEEP"
    [] m = "CHARGING" /\ k = "short_press"     -> "AWAKE_STANDBY"
    [] m = "CHARGING" /\ k = "long_press"      -> "OTA_MODE"
    [] k = "enter_pairing"                     -> "PAIRING_MODE"
    [] k = "handshake"                         -> "AWAKE_STANDBY"
    [] OTHER -> m

C10_SendCommandResult ==
  (at.pc = "done" /\ at.waitForOK) =>
    /\ at.result =>
         /\ at.exit = "line" /\ StartsWith(at.line, TokOK)
         /\ U32LT(U32Sub(at.end, at.start), at.timeoutMs)
    /\ ~at.result =>
         \/ at.exit = "line" /\ StartsWith(at.line, TokErr)
         \/ /\ at.exit = "timeout"
            /\ U32GE(U32Sub(at.end, at.start), at.timeoutMs)

\* ------------------------------------------------------------------------
\* Properties of the two tasks
\* ------------------------------------------------------------------------
\* C8: no step of a BLE handler changes the mode or the pairing record in
\* memory (the change is left to the main loop), and no loop iteration runs
\* while a network-config write is between its first and its last change
C8_HandlersHandOff ==
  [][ /\ ev'.op \in {"netcfg", "ctrl"} =>
           UNCHANGED <<powerState, isPaired, ANCHOR_UWB_NETWORK,
                       ANCHOR_UWB_ADDRESS>>
      /\ ev'.op = "loop" => hnd.pc \in {"idle", "network"} ]_vars

\* ------------------------------------------------------------------------
\* Properties of uwbSync() and configureUWB()
\* ------------------------------------------------------------------------
\* the run of uwbSync() so far: at most 5 probes were issued, only the latest
\* probe can be an acknowledged one and the function has then returned true
\* with no further probe, and once it has returned it has returned false
\* exactly when 5 probes were issued and none was acknowledged
SyncSafe ==
  job.fn = "uwbSync" =>
    /\ Len(job.cmds) <= 5
    /\ \A k \in 1..Len(job.cmds) : job.cmds[k] = Cmd("AT", EmptyStr)
    /\ \A k \in 1..Len(job.results) :
         job.results[k] =>
           /\ k = Len(job.results) /\ k = Len(job.cmds)
           /\ job.pc = "done" /\ job.ret = "true"
    /\ job.pc = "done" =>
         /\ job.ret \in {"true", "false"}
         /\ job.ret = "false" <=>
              /\ Len(job.results) = 5
              /\ \A k \in 1..5 : ~job.results[k]

\* C11: module sync issues the probe at most 5 times, returns success at the
\* first acknowledged probe and issues no further probe, declares the module
\* absent exactly when all 5 probes fail or time out, and always terminates.
C11_ModuleSync ==
  /\ []SyncSafe
  /\ (job.fn = "uwbSync") ~> (job.fn = "uwbSync" /\ job.pc = "done")

\* the module was declared absent after 5 probes, and setup() went on
C11_Witness ==
  /\ job.fn = "uwbSync" /\ job.pc = "done" /\ job.ret = "false"
  /\ Len(job.cmds) = 5 /\ Len(job.results) = 5
  /\ powerState = "AWAKE_STANDBY" /\ ~uwbSynced

\* the commands of the configuration sequence in the order of the
\* specification: role, network identifier, own address, signal strength
ConfigOrder ==
  << Cmd("AT+MODE=0", EmptyStr), Cmd("AT+NETWORKID=", ANCHOR_UWB_NETWORK),
     Cmd("AT+ADDRESS=", MY_UWB_ADDRESS), Cmd("AT+RSSI=1", EmptyStr) >>

IsConfigCmd(c) == c.cmd # "AT"

\* C12: in each run of the configuration sequence the commands written so
\* far are, in this order and each once, set role, set network identifier,
\* set own address, enable signal-strength reporting; when the run ends all
\* four have been written, whatever sendAT() returned for the earlier ones,
\* and the run never waits for more than the one command written last.
C12_ConfigSequence ==
  job.fn = "configureUWB" =>
    LET c == SelectSeq(job.cmds, IsConfigCmd)
    IN  /\ Len(c) <= 4
        /\ c = SubSeq(ConfigOrder, 1, Len(c))
        /\ Len(job.cmds) - Len(job.results) \in {0, 1}
        /\ job.pc = "done" => (c = ConfigOrder /\ Len(job.results) = 5)

\* a run has ended in which the set-role command failed and the
\* set-network-identifier command timed out
C12_Witness ==
  /\ job.fn = "configureUWB" /\ job.pc = "done"
  /\ ~job.results[2] /\ job.exits[2] = "line"
  /\ ~job.results[3] /\ job.exits[3] = "timeout"
  /\ job.results[5]
  /\ job.cmds[5] = Cmd("AT+RSSI=1", EmptyStr)

\* ------------------------------------------------------------------------
\* Properties of single rows of the transition table
\* ------------------------------------------------------------------------
\* C13: a loop iteration that began in standby and in which the detector
\* fired ends in running mode; one that began in running mode and in which
\* the detector re-armed ends in standby; one that began in any other mode
\* and in which the detector re-armed ends in the mode it began in.
C13_DetectorModeChange ==
  ev.op = "loop" =>
    /\ (ev.mode = "AWAKE_STANDBY" /\ ev.fired) => powerState = "AWAKE_RUNNING"
    /\ (ev.mode = "AWAKE_RUNNING" /\ ev.rearmed) => powerState = "AWAKE_STANDBY"
    /\ (ev.mode # "AWAKE_RUNNING" /\ ev.rearmed) => powerState = ev.mode

\* the detector re-armed in standby (a network-config write had ended the
\* running mode before the re-arm) and the mode stayed standby
C13_Witness ==
  /\ ev.op = "loop" /\ ev.rearmed /\ ev.mode = "AWAKE_STANDBY"
  /\ powerState = "AWAKE_STANDBY" /\ startArmed /\ obs.events >= 1

\* C14: a press that began in standby or running mode and lasted less than
\* 5000 ms has led to deep sleep, and one that lasted 5000 ms or more to the
\* OTA mode, by the end of the first loop iteration after the release that
\* runs in standby or running mode, whatever the mode was in between.
C14_ButtonPress ==
  (ev.op = "loop" /\ ev.mode \in Awake) =>
    /\ obs.owed = "sleep" => powerState = "DEEP_SLEEP"
    /\ obs.owed = "ota" => powerState = "OTA_MODE"

\* C15: a loop iteration in charging mode that finds the charger
\* disconnected ends in deep sleep when it finds no button press, and ends
\* in standby, not in deep sleep, when it finds a short press, begun and
\* still held or already released.
C15_ChargerDisconnect ==
  (ev.op = "loop" /\ ev.mode = "CHARGING" /\ ~ev.chg) =>
    /\ ev.press = "none" => powerState = "DEEP_SLEEP"
    /\ ev.press = "short" => powerState = "AWAKE_STANDBY"

\* C16 as written: after a wake caused by a short button press or by a
\* charger-voltage rise the mode is charging when the charger is present and
\* standby when it is not, whichever of the two caused the wake
C16_ChargerAloneDecides ==
  (/\ ev.op = "setup"
   /\ \/ ev.wake = "button" /\ ev.kind \in {"wake_button", "wake_released"}
      \/ ev.wake = "charger" /\ ev.kind = "wake_charger") =>
    powerState = IF ev.chg THEN "CHARGING" ELSE "AWAKE_STANDBY"

\* C16: after a wake by the button with the button still held at boot (for
\* less than 5000 ms) the mode is standby, charger or not; after a wake by
\* the charger-voltage rise with the button up the mode is charging, whatever
\* the charger reads at boot; after a wake by the button with the button
\* already up at boot the charger reading decides between the two.
C16_WakeMode ==
  ev.op = "setup" =>
    /\ ev.kind = "wake_button" => powerState = "AWAKE_STANDBY"
    /\ ev.kind = "wake_charger" => powerState = "CHARGING"
    /\ ev.kind = "wake_released" =>
         powerState = IF ev.chg THEN "CHARGING" ELSE "AWAKE_STANDBY"

\* a wake by a short button press with the charger present: standby
C16_Witness ==
  /\ ev.op = "setup" /\ ev.wake = "button" /\ ev.kind = "wake_button"
  /\ ev.chg /\ isCharging /\ powerState = "AWAKE_STANDBY"

\* C17: an enter-pairing command handled in standby or running mode sets the
\* mode to pairing, the detector armed or not, and the only step that takes
\* the mode out of pairing is a network-config write.
C17_PairingMode ==
  [][ /\ (ev'.op = "ctrl" /\ ev'.kind = "enter_pairing" /\ powerState \in Awake)
           => powerState' = "PAIRING_MODE"
      /\ (powerState = "PAIRING_MODE" /\ powerState' # "PAIRING_MODE")
           => ev'.op = "netcfg" ]_vars

\* C18: entering DeepSleep first switches the peripheral rail off and pulls the
\* two sensor-bus lines down, only then arms wake sources, has exactly the
\* button-level and the charger-voltage sources armed when it suspends, and
\* suspends last; nothing else of the iteration or of setup runs after it (no
\* sensor sample, no detector step, no radio poll, no frame, no other mode)
\* and the next step of the device is a boot
SleepOrder(run) ==
  /\ Len(run) > 0
  /\ ~run[1].rail /\ run[1].sda = "INPUT_PULLDOWN" /\ run[1].scl = "INPUT_PULLDOWN"
  /\ run[1].wake = {} /\ ~run[1].halted
  /\ \A i \in 1..Len(run) :
       /\ ~run[i].rail /\ run[i].sda = "INPUT_PULLDOWN" /\ run[i].scl = "INPUT_PULLDOWN"
       /\ run[i].halted <=> i = Len(run)
  /\ run[Len(run)].wake = {"button_low", "charger_high"}

C18_DeepSleepEntry ==
  [][ /\ (ev'.sleep # << >>) =>
           /\ SleepOrder(ev'.sleep)
           /\ powerState' = "DEEP_SLEEP"
           /\ ~rail3V3On'
           /\ wakeSources' = {"button_low", "charger_high"}
           /\ ~ev'.fired /\ ~ev'.rearmed /\ ~ev'.polled
           /\ ev'.sample = "none"
           /\ txFrame' = NoFrame
      /\ (powerState = "DEEP_SLEEP") => ev'.op = "setup" ]_vars

C18_Witness ==
  /\ ev.sleep # << >>
  /\ ev.op = "loop" /\ ev.kind = "short_press" /\ ev.mode = "AWAKE_RUNNING"
  /\ powerState = "DEEP_SLEEP"

\* C19: a handled unpair command leaves the two in-memory identifiers empty,
\* the two persisted keys erased, paired false in memory and in the store,
\* issues nothing to the radio and leaves the mode as it was; from then on,
\* until a network-config write is handled, the device stays unpaired and no
\* step of it transmits a telemetry frame
Unpaired ==
  /\ ~isPaired /\ ~nvs.paired
  /\ ANCHOR_UWB_NETWORK = EmptyStr /\ ANCHOR_UWB_ADDRESS = EmptyStr

C19_Unpair ==
  [][ /\ (ev'.op = "ctrl" /\ ev'.kind = "unpair") =>
           /\ ANCHOR_UWB_NETWORK' = EmptyStr /\ ANCHOR_UWB_ADDRESS' = EmptyStr
           /\ nvs'.uwb_network = NoKey /\ nvs'.anchor_addr = NoKey
           /\ ~isPaired' /\ ~nvs'.paired
           /\ uwbCfg' = uwbCfg /\ txFrame' = txFrame /\ uwb' = uwb /\ at' = at
           /\ powerState' = powerState
      /\ (Unpaired /\ ev'.op # "netcfg") =>
           /\ ~isPaired' /\ ~nvs'.paired
           /\ ~(txFrame'.sent /\ ev'.op = "loop") ]_vars

\* C20: the parse of a network-config write is field-independent: a payload
\* without the network-id field leaves the in-memory network identifier as it
\* was, one without the address field leaves the in-memory address as it was,
\* and a field that the payload holds is taken (cut to the 15 characters the
\* buffer keeps) whether or not the other field is there
DescOf(v) == CHOOSE d \in ParseDescs : Render(d) = v

C20_FieldIndependent ==
  [][ (ev'.op = "netcfg" /\ ev'.payload # << >>) =>
        LET d == DescOf(ev'.payload)
        IN  /\ ANCHOR_UWB_NETWORK' =
                 (IF d.net = NoField THEN ANCHOR_UWB_NETWORK
                  ELSE SubSeq(d.net, 1, Min(Len(d.net), 15)))
            /\ ANCHOR_UWB_ADDRESS' =
                 (IF d.addr = NoField THEN ANCHOR_UWB_ADDRESS
                  ELSE SubSeq(d.addr, 1, Min(Len(d.addr), 15))) ]_vars

C20_Witness ==
  /\ ev.op = "netcfg"
  /\ ev.payload = Render([net |-> NoField, addr |-> NetWord,
                          netFirst |-> TRUE, sp |-> FALSE])
  /\ ANCHOR_UWB_NETWORK = NetA
  /\ ANCHOR_UWB_ADDRESS = NetWord

\* C21: persistence round trip. A handled network-config write leaves the
\* store holding paired = true and the two in-memory identifiers, a handled
\* unpair leaves it holding paired = false and no identifier; nothing else
\* changes or writes the store (no loop iteration, no boot, no sleep entry, no
\* power cycle); every boot reads the store in one pass (the flag once, each
\* identifier at most once) and comes up with the stored flag, with the
\* stored identifiers when paired and with empty ones when not, and the
\* radio configuration it issues carries the stored network identifier
StoreReads(ops) == {i \in 1..Len(ops) : ops[i] \in {"getBool", "getString"}}

StoreWrites(ops) ==
  {i \in 1..Len(ops) : ops[i] \in {"putBool", "putString", "remove"}}

C21_PersistenceRoundTrip ==
  [][ /\ (ev'.op = "netcfg") =>
           nvs' = [paired |-> TRUE, uwb_network |-> ANCHOR_UWB_NETWORK',
                   anchor_addr |-> ANCHOR_UWB_ADDRESS']
      /\ (ev'.op = "ctrl" /\ ev'.kind = "unpair") =>
           nvs' = [paired |-> FALSE, uwb_network |-> NoKey,
                   anchor_addr |-> NoKey]
      /\ (nvs' # nvs \/ StoreWrites(ev'.store) # {}) =>
           (ev'.op = "netcfg" \/ (ev'.op = "ctrl" /\ ev'.kind = "unpair"))
      /\ (StoreReads(ev'.store) # {}) => ev'.op = "setup"
      /\ (ev'.op = "setup") =>
           /\ Cardinality({i \in StoreReads(ev'.store) :
                             ev'.store[i] = "getBool"}) = 1
           /\ Cardinality(StoreReads(ev'.store)) = IF nvs.paired THEN 3 ELSE 1
           /\ ev'.store[1] = "getBool"
           /\ (powerState' # "DEEP_SLEEP") =>
                /\ isPaired' = nvs.paired
                /\ nvs.paired =>
                     /\ ANCHOR_UWB_NETWORK' = nvs.uwb_network
                     /\ ANCHOR_UWB_ADDRESS' = nvs.anchor_addr
                /\ ~nvs.paired =>
                     /\ ANCHOR_UWB_NETWORK' = EmptyStr
                     /\ ANCHOR_UWB_ADDRESS' = EmptyStr
                /\ (uwbCfg' # << >> /\ nvs.paired) =>
                     uwbCfg' = ConfigureUWB(nvs.uwb_network) ]_vars

\* a boot after a power cycle that followed a write of NetB with no address
\* field to a device paired with NetA and AddrA
C21_Witness ==
  /\ ev.op = "setup" /\ ev.wake = "poweron"
  /\ powerState = "AWAKE_STANDBY"
  /\ isPaired
  /\ ANCHOR_UWB_NETWORK = NetB
  /\ ANCHOR_UWB_ADDRESS = AddrA
  /\ uwbCfg = ConfigureUWB(NetB)

\* C22: the last-known distance is always unknown (-1) or within 1..65534, and
\* it changes in a step only when that step completed an inbound line that
\* holds the report marker, then the unit suffix, with digits directly before
\* the suffix whose value lies in 1..65534, and then to such a value; a step
\* that completes no such line (no marker, no suffix, no digits, value 0 or
\* above 65534, suffix before the marker, a line still partial) leaves it as
\* it was. Decimal is the value of a digit string, or some number above
\* 65534 when the value is above 65534
RECURSIVE Decimal(_, _)
Decimal(acc, ds) ==
  IF ds = << >> \/ acc > 65534 THEN acc
  ELSE Decimal(acc * 10 + DigitVal(Head(ds)), Tail(ds))

LineDescOf(l) ==
  CHOOSE d \in LineDescs :
    SubSeq(RenderLine(d), 1, Min(Len(RenderLine(d)), 120)) = l

ValidReport(d) ==
  /\ d.form \in {"report", "long_head", "long_tail"}
  /\ d.mark /\ d.suf /\ d.num # << >>
  /\ Decimal(0, d.num) >= 1 /\ Decimal(0, d.num) <= 65534

ReportedIn(ls) ==
  {Decimal(0, LineDescOf(ls[i]).num) :
     i \in {j \in 1..Len(ls) : ValidReport(LineDescOf(ls[j]))}}

C22_DistanceUpdate ==
  [][ /\ (uwb_distance_cm' = -1
           \/ (uwb_distance_cm' >= 1 /\ uwb_distance_cm' <= 65534))
      /\ (uwb_distance_cm' # uwb_distance_cm /\ powerState' # "DEEP_SLEEP") =>
           /\ ev'.op = "loop"
           /\ uwb_distance_cm' \in ReportedIn(ev'.lines) ]_vars

\* a report of 7 has been taken, and a later iteration that completed a line
\* with the value 65535 has left it
C22_Witness ==
  /\ uwb_distance_cm = 7
  /\ ev.op = "loop"
  /\ Len(ev.lines) = 1
  /\ ev.lines[1] = RenderLine([form |-> "report", mark |-> TRUE, suf |-> TRUE,
                               num |-> <<"6", "5", "5", "3", "5">>])

\* C23: every transmitted frame is 14 hexadecimal characters: two for the
\* battery percentage, which lies in 0..100; four for the distance, high byte
\* first, the last-known distance when it lies in 1..65534 and FFFF otherwise;
\* eight for the start age, high byte first in two's complement, FFFFFFFF
\* when no start event is pending and the time since the event otherwise
RECURSIVE HexVal(_, _)
HexVal(acc, cs) ==
  IF cs = << >> THEN acc
  ELSE HexVal(acc * 16
              + (CHOOSE k \in 0..15 :
                   <<"0", "1", "2", "3", "4", "5", "6", "7", "8", "9", "A",
                     "B", "C", "D", "E", "F">>[k + 1] = Head(cs)),
              Tail(cs))

C23_FrameLayout ==
  [][ (ev'.op = "loop" /\ txFrame'.sent) =>
        LET h  == txFrame'.hex
            hi == HexVal(0, SubSeq(h, 7, 10))
            lo == HexVal(0, SubSeq(h, 11, 14))
            age == IF hi < 32768 THEN hi * 65536 + lo
                   ELSE (hi - 65536) * 65536 + lo
        IN  /\ Len(h) = 14
            /\ HexVal(0, SubSeq(h, 1, 2)) = batteryPercent'
            /\ batteryPercent' >= 0 /\ batteryPercent' <= 100
            /\ HexVal(0, SubSeq(h, 3, 6)) =
                 (IF uwb_distance_cm >= 1 /\ uwb_distance_cm <= 65534
                  THEN uwb_distance_cm ELSE 65535)
            /\ (startTimestamp < 0) => (hi = 65535 /\ lo = 65535)
            /\ (startTimestamp >= 0) => (age = lastSend' - startTimestamp) ]_vars

\* a frame with battery 9 %, distance 7 and a start event 100 ms old
C23_Witness ==
  /\ ev.op = "loop" /\ txFrame.sent
  /\ txFrame.hex = <<"0", "9", "0", "0", "0", "7", "0", "0", "0", "0", "0", "0",
                     "6", "4">>

\* ------------------------------------------------------------------------
\* Properties of the detector's inputs
\* ------------------------------------------------------------------------
\* C24: in every reachable state the baseline is at most 183, whatever the
\* magnitude of the raw readings, when it is first learned and when it is
\* learned again on a re-arm; and a step that changes the baseline sets it to
\* the smaller of the sample and 183
C24_BaselineClamp ==
  [][ /\ baseline_cm' >= 0 /\ baseline_cm' <= 183
      /\ (baseline_cm' # baseline_cm /\ ev'.op = "loop") =>
           baseline_cm' = (IF tof_cm' > 183 THEN 183 ELSE tof_cm') ]_vars

\* the detector, re-arming after a start event, learned the baseline 183
\* from a reading of 6553 cm
C24_Witness ==
  /\ ev.op = "loop" /\ ev.rearmed
  /\ tof_cm = 6553 /\ baseline_cm = 183

\* C25: a loop iteration whose sample is invalid (0 or less) leaves baseline,
\* belowCount, aboveCount, armed and lastDropAt as they were, fires no start
\* event, re-arms nothing and leaves the mode unchanged
C25_InvalidSampleIgnored ==
  [][ (ev'.op = "loop" /\ ev'.polled /\ tof_cm' <= 0) =>
        /\ baseline_cm' = baseline_cm
        /\ belowConsec' = belowConsec
        /\ aboveConsec' = aboveConsec
        /\ startArmed' = startArmed
        /\ lastTriggerDetectionMs' = lastTriggerDetectionMs
        /\ powerState' = powerState
        /\ ~ev'.fired /\ ~ev'.rearmed ]_vars

\* a new, invalid sample arrived while the disarmed detector had counted one
\* clear sample after the hold window
C25_Witness ==
  /\ ev.op = "loop" /\ ev.polled /\ ev.fresh /\ tof_cm = 0
  /\ ~startArmed /\ aboveConsec = 1 /\ powerState = "AWAKE_RUNNING"

\* the part of the example that precedes the re-arm: the baseline is 183,
\* belowCount is 1 at the 165 sample (t = 40) and 2 at the 160 sample, where
\* the one start event fires (t = 60), and no re-arm happens before t = 560
ScenarioStart(t) ==
  /\ (t = 0) => baseline_cm' = 183
  /\ (t = 40) => belowConsec' = 1
  /\ (t = 60) => belowConsec' = 2
  /\ (t <= 580) => (ev'.fired <=> t = 60)
  /\ (t < 560) => (~ev'.rearmed /\ baseline_cm' = 183)

\* C26: on the stream 183,175,165,160,170,180,...,182,183 sampled every 20 ms
\* the baseline is 183, belowCount is 1 at the 165 sample and 2 at the 160
\* sample, the start event fires at t = 60, no re-arm happens before t = 560,
\* and the samples at t = 560 and t = 580 re-arm the detector at t = 580 with
\* baseline 183
C26_Scenario ==
  [][ ev'.op = "loop" =>
        LET t == ScenarioT(now')
        IN  /\ ScenarioStart(t)
            /\ (t = 580) => (ev'.rearmed /\ startArmed' /\ baseline_cm' = 183)
    ]_vars

\* C27: a loop iteration in which the sensor delivered no new sample leaves
\* baseline, belowCount, aboveCount, armed and lastDropAt unchanged, and
\* fires no start event and re-arms nothing
C27_OncePerSample ==
  [][ (ev'.op = "loop" /\ ev'.polled /\ ~ev'.fresh) =>
        /\ baseline_cm' = baseline_cm
        /\ belowConsec' = belowConsec
        /\ aboveConsec' = aboveConsec
        /\ startArmed' = startArmed
        /\ lastTriggerDetectionMs' = lastTriggerDetectionMs
        /\ ~ev'.fired /\ ~ev'.rearmed ]_vars

\* ------------------------------------------------------------------------
\* Properties of a write handled during a loop iteration
\* ------------------------------------------------------------------------
\* C28: a pairing request is never lost: from a state whose mode is pairing,
\* every step other than the handling of a network-config write, the rest of
\* a loop iteration that was in progress when the control handler ran
\* included, ends with the mode still pairing
C28_PairingNotLost ==
  [][ (powerState = "PAIRING_MODE" /\ ev'.op # "netcfg")
        => powerState' = "PAIRING_MODE" ]_vars

C31_RecordNotTorn ==
  [][ (ev'.op = "setup" /\ isPaired') =>
        [net |-> ANCHOR_UWB_NETWORK', addr |-> ANCHOR_UWB_ADDRESS']
          \in TornPayloads ]_vars

\* ------------------------------------------------------------------------
\* Properties of the lines of the radio module
\* ------------------------------------------------------------------------
\* the lines the module has sent and sendAT() has not read to their end
RECURSIVE Terminators(_)
Terminators(bs) ==
  IF bs = << >> THEN 0
  ELSE (IF Head(bs) = LF THEN 1 ELSE 0) + Terminators(Tail(bs))

\* the command answered by the line that sendAT() read last
AnsweredCmd == job.ans[Len(job.ans) - Terminators(uwb.rx \o uwb.wire)]

\* C32: when sendAT() returns true on a success line, the module produced
\* that line in response to the command of this call, not to an earlier
\* command whose call has already timed out
C32_AckAttribution ==
  (job.pc = "wait" /\ at.pc = "done" /\ at.exit = "line" /\ at.result)
    => AnsweredCmd = Len(job.cmds)

\* C33: a line that begins with the readiness token does not end a call
\* that waits for an acknowledgement; such a call ends on a line only when
\* the line begins with the success or the error token
C33_ReadinessIndependent ==
  (at.pc = "done" /\ at.waitForOK /\ at.exit = "line")
    => ~StartsWith(at.line, TokReady)

\* C34: the line under assembly never holds more than LINE_MAX characters,
\* neither the line of a call of sendAT() nor the line of pollUWB(), however
\* many characters arrive without a line end
C34_LineBounded ==
  /\ Len(at.line) <= LINE_MAX
  /\ Len(uwb.line) <= LINE_MAX

\* C35: every transmitted frame is addressed to the peer address of the
\* pairing record, which is not empty, and the device is paired when the
\* frame goes out
C35_FrameDestination ==
  [][ (ev'.op = "loop" /\ txFrame'.sent) =>
        /\ txFrame'.dest # EmptyStr
        /\ isPaired'
        /\ txFrame'.dest = ANCHOR_UWB_ADDRESS' ]_vars

\* C36: after an iteration in which a StartEvent fired, at whatever value of
\* the 32-bit clock, the event is pending (the stored time is not taken for
\* "none"), and the stored time is the clock value of the iteration
C36_EventPendingAtAnyClock ==
  (ev.op = "loop" /\ ev.fired) =>
    /\ startTimestamp >= 0
    /\ startTimestamp = now

\* C37: in standby and in running mode the pairing service has been started
\* since the boot (startBLE() has run), whichever way the mode was entered
C37_PairingServiceUp ==
  powerState \in {"AWAKE_STANDBY", "AWAKE_RUNNING"} => bleStarted

\* C38: when the detector processes a valid sample whose drop is below the
\* threshold, belowCount becomes max(0, belowCount - 1); when it processes a
\* sample whose drop is at or above the threshold while armed, belowCount
\* grows by exactly 1 and lastDropAt becomes the time of the iteration
C38_DecaySemantics ==
  [][ (ev'.op = "loop" /\ ev'.polled /\ tof_cm' > 0) =>
        LET cur  == IF tof_cm' > 183 THEN 183 ELSE tof_cm'
            base == IF baseline_cm = 0 THEN cur ELSE baseline_cm
            drop == IF base > cur THEN base - cur ELSE 0
        IN  /\ drop < 10 =>
                 belowConsec' = (IF belowConsec >= 1 THEN belowConsec - 1 ELSE 0)
            /\ (drop >= 10 /\ startArmed) =>
                 /\ belowConsec' = belowConsec + 1
                 /\ lastTriggerDetectionMs' = now' ]_vars

\* a clear sample has taken the count of the fired detector from 2 to 1
C38_Witness ==
  /\ ev.op = "loop" /\ ev.polled /\ ev.sample = "Cin"
  /\ ~startArmed /\ belowConsec = 1

\* C39: whenever the mode is running the detector is disarmed: the step that
\* fires disarms it, a re-arm in running mode sets standby in the same
\* iteration, and nothing else arms the detector and leaves the mode running
C39_RunningIsDisarmed ==
  powerState = "AWAKE_RUNNING" => ~startArmed

\* a re-arm has just taken the device from running mode back to standby
C39_Witness ==
  /\ ev.op = "loop" /\ ev.rearmed /\ ev.mode = "AWAKE_RUNNING"
  /\ powerState = "AWAKE_STANDBY" /\ startArmed

\* C40: between iterations the peripheral rail is on exactly in standby,
\* running, pairing and OTA mode, it is off in charging mode and in deep
\* sleep, and an iteration that polled the radio and ran the detector has
\* the rail on
C40_RailFollowsMode ==
  /\ rail3V3On <=> powerState \in {"AWAKE_STANDBY", "AWAKE_RUNNING",
                                   "PAIRING_MODE", "OTA_MODE"}
  /\ (ev.op = "loop" /\ ev.polled) => rail3V3On

\* the rail has come on with the wake from charging mode, and the iteration
\* after the wake has polled the radio
C40_Witness ==
  /\ ev.op = "loop" /\ ev.polled /\ rail3V3On /\ ~bleStarted
  /\ powerState = "AWAKE_STANDBY"

====
